---- MODULE Spec2Model ----
(***************************************************************************)
(* Notion synchronisation engine of claude-task-master: the transactional  *)
(* operation framework (TransactionManager, CompositeOperation, the bulk   *)
(* archive / create operations, the mapping-file operations) and the reset *)
(* command built on it; the outstanding requests of the bulk loops;        *)
(* executeWithRetry; diffTasks with the two flattening helpers; and the    *)
(* identity map (getNotionPageId, setNotionPageId, removeNotionPageId).    *)
(*                                                                         *)
(* Every unit of the code is one state machine.  The variable `unit` says  *)
(* which unit a behaviour exercises; the variables of the other units stay *)
(* at their idle values.                                                   *)
(***************************************************************************)
EXTENDS Integers, Sequences, FiniteSets, TLC

(* ------------------------------ bounds -------------------------------- *)

\* executeOperation() calls made on one TransactionManager
MaxOps == 3

\* operations handed to one CompositeOperation
MaxCompOps == 4

\* commit() / rollback() calls made on one TransactionManager or
\* CompositeOperation
MaxCalls == 2

VARIABLES
    unit,                 \* the unit under execution
    log,                  \* history of the calls made on operations and of what reached the caller
    calls,                \* number of commit()/rollback() calls made so far
    operations,           \* TransactionManager.operations
    rollbackInProgress,   \* TransactionManager.rollbackInProgress
    tmPc,                 \* "idle" | "rollback": position inside TransactionManager.rollback
    nextOp,               \* identity of the next operation object passed to executeOperation
    rbIndex,              \* loop variable i of the rollback loops
    rbCaller,             \* who awaits the running rollback: "executeOperation"/"execute" or "caller"
    pendingError,         \* the error caught by the catch block that awaits the rollback
    rollbackErrors,       \* TransactionManager.rollback's local rollbackErrors
    compOperations,       \* CompositeOperation.operations (their number; operation k is k)
    executedOperations,   \* CompositeOperation.executedOperations
    compPc,               \* "ready" | "execute" | "rollbackExecuted" | "returned" | "thrown" | "rolledBack"
    compIdx,              \* position of CompositeOperation.execute's for..of loop
    pages,                \* the input list: ArchivePagesOperation.pages, CreatePagesOperation.tasksToCreate,
                          \* the pages argument of archivePagesInParallel
    opPc,                 \* "ready" | "returned" | "thrown" | "rolledBack": position of the bulk / mapping operation
    results,              \* the results object returned by execute() / archivePagesInParallel
    archivedPages,        \* ArchivePagesOperation.archivedPages (page ids)
    createdPages,         \* CreatePagesOperation.createdPages
    requests,             \* the requests issued to the remote store, in order, with their outcome
    file,                 \* the mapping file (.taskmaster/notion-sync.json)
    fileBefore,           \* the mapping file as it was before the operation or command started
    originalContent,      \* originalContent of UpdateMappingOperation / ClearMappingOperation
    newContent,           \* the newMapping / newMeta given to UpdateMappingOperation
    resetPc,              \* position of ResetNotionCommand.execute
    localTasks            \* the tasks of the local store (their ids)

\* the requests a bulk operation has outstanding
VARIABLES
    flightOp,             \* the bulk operation that runs
    flightN,              \* the length of its input list (item k is k)
    flightPc,             \* "loop" | "await" | "returned"
    flightI,              \* loop variable i: the offset of the current batch
    inFlight              \* the requests issued and not yet answered: <<item, kind>>

\* diffTasks(previous, current), flattenTasksWithTag(tasks, tag), flattenTasksMap(tasks)
VARIABLES
    previous,             \* the previous snapshot: the list of its <<tag, tasks>> entries, in key order
    current,              \* the current snapshot
    diffPc,               \* "ready" | "done"
    finalChanges,         \* the value diffTasks returns
    flatArr,              \* the value flattenTasksWithTag returns for the first tag of current
    flatMap               \* the value flattenTasksMap returns for it: the list of the Map's entries

\* getNotionPageId, setNotionPageId, removeNotionPageId
VARIABLES
    heap,                 \* the per-tag id tables: object reference -> set of <<id, notionId>>
    mapArg,               \* the mapping object passed to the last call: set of <<tag, reference>>
    mapBefore,            \* what mapArg held when the call started
    mapNew,               \* the mapping object the last call returned
    mapCalls              \* the calls made so far

\* executeWithRetry(fn, options)
VARIABLES
    retryOptions,         \* the second argument
    retryPc,              \* "call" | "wait" | "returned" | "thrown"
    attempt,              \* let attempt
    delay,                \* let delay
    invocations,          \* the outcome of each invocation of fn so far
    retryResult           \* what reached the caller: <<"returned", k>> or <<"thrown", k>> with
                          \* k the invocation that produced the value or the error

\* repairNotionDB(projectRoot, options), repairNotionDuplicates(projectRoot, options)
VARIABLES
    repOp,                \* the function that runs
    repOptions,           \* its options: dryRun, preserveExtraTasks, forceSync
    repairPc,             \* the phase about to run, "returned" after the return
    remote,               \* the pages of the database before the run: taskid (0: none), tag, created
    repLocal,             \* the ids of the local tasks: under the current tag, under the other tag
    repMapping,           \* the mapping file: set of <<tag, id, page>>
    repWrites,            \* how many times the run wrote the mapping file
    repRequests,          \* the create and archive requests the run sent, answered
    notionPages,          \* const notionPages (allPages): the pages the first fetch returned
    rep,                  \* the locals of the run
    report                \* the value returned

\* validateHierarchyIntegrity, checkRelationProperties, loadNotionSyncMapping,
\* updateHierarchicalRelations: one call of one of them
VARIABLES
    fnCall,               \* the function called
    fnIn,                 \* its arguments
    fnPc,                 \* "ready" | "done"
    fnOut                 \* the value returned

\* syncTasksWithNotion(prevTasks, curTasks, projectRoot), on `previous` and `current`
VARIABLES
    syncPc,               \* "ready" | "returned" | "thrown"
    syncMapping,          \* the mapping file: set of <<tag, id, page>>
    syncLive,             \* the pages of the database that are not archived
    syncRequests,         \* the requests sent, answered
    syncWrites,           \* the saves of the mapping file made by the run, in order
    syncApplied,          \* the change records whose branch of the loop was entered, in order
    syncBefore            \* the mapping file before the run

txVars == <<operations, rollbackInProgress, tmPc, nextOp, rollbackErrors>>
compVars == <<compOperations, executedOperations, compPc, compIdx>>
loopVars == <<rbIndex, rbCaller, pendingError>>
bulkVarsButPc == <<pages, results, archivedPages, createdPages, requests>>
bulkVars == <<bulkVarsButPc, opPc>>
fileVars == <<file, fileBefore, originalContent, newContent>>
resetVars == <<resetPc, localTasks>>
flightVars == <<flightOp, flightN, flightPc, flightI, inFlight>>
retryVars == <<retryOptions, retryPc, attempt, delay, invocations, retryResult>>
diffVars == <<previous, current, diffPc, finalChanges, flatArr, flatMap>>
mapVars == <<heap, mapArg, mapBefore, mapNew, mapCalls>>
repairVars == <<repOp, repOptions, repairPc, remote, repLocal, repMapping, repWrites,
                repRequests, notionPages, rep, report>>
\* the variables of the repair functions and of the units after them
fnVars == <<fnCall, fnIn, fnPc, fnOut>>
syncVars == <<syncPc, syncMapping, syncLive, syncRequests, syncWrites, syncApplied, syncBefore>>
laterVars == <<repairVars, fnVars, syncVars>>
\* the variables of the units that use neither the transaction framework,
\* nor the bulk and mapping operations, nor the reset command
moreVars == <<flightVars, retryVars, diffVars, mapVars, laterVars>>
vars == <<unit, log, calls, txVars, compVars, loopVars, bulkVars, fileVars, resetVars,
          moreVars>>

\* the variables no action of the transaction framework touches
outsideTx == <<bulkVars, fileVars, resetVars, moreVars>>
\* the variables no action of the bulk and mapping operations touches
outsideOps == <<log, calls, txVars, compVars, loopVars, resetVars, moreVars>>
\* the variables no action of the reset command touches
outsideReset == <<log, calls, nextOp, rollbackErrors, rbCaller, pendingError, compVars,
                  createdPages, opPc, moreVars>>

(* ------------------------------ errors -------------------------------- *)

NoError == <<"none", 0>>
\* the error thrown by the execute() of operation op
ExecError(op) == <<"execute", op>>
\* the error thrown by the rollback() of operation op
RollbackError(op) == <<"rollback", op>>
\* new Error('Cannot execute operations during rollback')
GuardError == <<"guard", 0>>

\* one entry of the history
Ev(ev, op, ok, err) == [ev |-> ev, op |-> op, ok |-> ok, err |-> err]

(* ------------------------ idle values of the units -------------------- *)

TxIdle ==
    /\ operations = <<>>
    /\ rollbackInProgress = FALSE
    /\ tmPc = "idle"
    /\ nextOp = 1
    /\ rollbackErrors = <<>>

CompIdle ==
    /\ compOperations = 0
    /\ executedOperations = <<>>
    /\ compPc = "ready"
    /\ compIdx = 1

LoopIdle ==
    /\ rbIndex = 0
    /\ rbCaller = "caller"
    /\ pendingError = NoError

FlightIdle ==
    /\ flightOp = "none"
    /\ flightN = 0
    /\ flightPc = "loop"
    /\ flightI = 0
    /\ inFlight = {}

RetryIdle ==
    /\ retryOptions = [kind |-> "undefined", has |-> FALSE, retries |-> 0]
    /\ retryPc = "call"
    /\ attempt = 0
    /\ delay = 0
    /\ invocations = <<>>
    /\ retryResult = <<"none", 0>>

DiffIdle ==
    /\ previous = <<>>
    /\ current = <<>>
    /\ diffPc = "ready"
    /\ finalChanges = <<>>
    /\ flatArr = <<>>
    /\ flatMap = <<>>

MapIdle ==
    /\ heap = <<>>
    /\ mapArg = {}
    /\ mapBefore = [tags |-> {}, entries |-> {}]
    /\ mapNew = {}
    /\ mapCalls = <<>>

NoReport == [pending |-> TRUE]

RepairIdle ==
    /\ repOp = "none"
    /\ repOptions = [dryRun |-> FALSE, preserveExtraTasks |-> FALSE, forceSync |-> FALSE]
    /\ repairPc = "returned"
    /\ remote = <<>>
    /\ repLocal = [cur |-> {}, other |-> {}]
    /\ repMapping = {}
    /\ repWrites = 0
    /\ repRequests = <<>>
    /\ notionPages = <<>>
    /\ rep = [pending |-> TRUE]
    /\ report = NoReport

FnIdle ==
    /\ fnCall = "none"
    /\ fnIn = <<>>
    /\ fnPc = "done"
    /\ fnOut = <<>>

SyncIdle ==
    /\ syncPc = "returned"
    /\ syncMapping = {}
    /\ syncLive = {}
    /\ syncRequests = <<>>
    /\ syncWrites = <<>>
    /\ syncApplied = <<>>
    /\ syncBefore = {}

LaterIdle == RepairIdle /\ FnIdle /\ SyncIdle

MoreIdle == FlightIdle /\ RetryIdle /\ DiffIdle /\ MapIdle /\ LaterIdle

(* ========================= TransactionManager ========================= *)

\* every operation class of the repository has a rollback method
\* (BaseOperation.rollback, overridden or not; SyncTasksOperation.rollback)
HasRollback(op) == TRUE

\* executeOperation: if (this.rollbackInProgress) throw ...
ExecuteGuard == rollbackInProgress

\* rollback: if (this.rollbackInProgress) return
RollbackGuardOff == FALSE
RollbackGuard == rollbackInProgress

\* rollback: for (let i = this.operations.length - 1; ...
RollbackLoopStartSkipsLast(ops) == Len(ops) - 1
RollbackLoopStart(ops) == Len(ops)

\* rollback: the try/catch around operation.rollback(result) lets the loop go
\* on to i - 1 whether the rollback returned (ok) or threw
NextRollbackIndexAbortsOnError(i, ok) == IF ok THEN i - 1 ELSE 0
NextRollbackIndex(i, ok) == i - 1

\* what the catch block of executeOperation throws after the rollback
Rethrown(caught, rbErrs) == caught

\* commit: this.operations = []
CommitKeepsOperations(ops) == ops
CommittedOperations(ops) == <<>>

\* rollback() entered with history lg, awaited by `caller` holding `err`
RollbackEnter(lg, caller, err) ==
    IF RollbackGuard
    THEN \* returns at once; the awaiting catch block then throws its error
         /\ log' = IF caller = "executeOperation"
                   THEN lg \o <<Ev("rollbackSkipped", 0, TRUE, NoError),
                                Ev("throw", 0, FALSE, err)>>
                   ELSE Append(lg, Ev("rollbackSkipped", 0, TRUE, NoError))
         /\ UNCHANGED <<operations, rollbackInProgress, tmPc, rollbackErrors, loopVars>>
    ELSE /\ rollbackInProgress' = TRUE
         /\ tmPc' = "rollback"
         /\ rollbackErrors' = <<>>
         /\ rbIndex' = RollbackLoopStart(operations)
         /\ rbCaller' = caller
         /\ pendingError' = err
         /\ log' = Append(lg, Ev("rollbackBegin", 0, TRUE, NoError))
         /\ UNCHANGED operations

\* executeOperation(operation) on a fresh operation object whose execute()
\* succeeds (ok) or throws.  It is called by the command between two
\* operations, or from inside a rollback step while a rollback is running.
ExecuteOperation(ok) ==
    /\ unit = "TransactionManager"
    /\ nextOp <= MaxOps
    /\ nextOp' = nextOp + 1
    /\ UNCHANGED <<outsideTx, unit, calls, compVars>>
    /\ IF ExecuteGuard
       THEN /\ log' = Append(log, Ev("refused", nextOp, FALSE, GuardError))
            /\ UNCHANGED <<operations, rollbackInProgress, tmPc, rollbackErrors, loopVars>>
       ELSE IF ok
            THEN /\ operations' = Append(operations, nextOp)
                 /\ log' = Append(log, Ev("execute", nextOp, TRUE, NoError))
                 /\ UNCHANGED <<rollbackInProgress, tmPc, rollbackErrors, loopVars>>
            ELSE RollbackEnter(Append(log, Ev("execute", nextOp, FALSE, ExecError(nextOp))),
                               "executeOperation", ExecError(nextOp))

\* rollback() called by the owner of the transaction (BaseNotionCommand.execute's
\* catch block), or from inside a rollback step while a rollback is running
Rollback ==
    /\ unit = "TransactionManager"
    /\ calls < MaxCalls
    /\ calls' = calls + 1
    /\ UNCHANGED <<outsideTx, unit, nextOp, compVars>>
    /\ RollbackEnter(log, "caller", NoError)

\* one iteration of the rollback loop: operation.rollback(result) succeeds or throws
RollbackStep(ok) ==
    /\ unit = "TransactionManager"
    /\ tmPc = "rollback"
    /\ rbIndex >= 1
    /\ LET op == operations[rbIndex] IN
       /\ log' = IF HasRollback(op)
                 THEN Append(log, Ev("rollback", op, ok,
                                     IF ok THEN NoError ELSE RollbackError(op)))
                 ELSE log
       /\ rollbackErrors' = IF HasRollback(op) /\ ~ok
                            THEN Append(rollbackErrors, op)
                            ELSE rollbackErrors
    /\ rbIndex' = NextRollbackIndex(rbIndex, ok)
    /\ UNCHANGED <<outsideTx, unit, calls, operations, rollbackInProgress, tmPc, nextOp,
                   rbCaller, pendingError, compVars>>

\* the end of rollback(): the list is emptied, the flag reset, and the catch
\* block of executeOperation, when it is the one awaiting, throws
RollbackReturn ==
    /\ unit = "TransactionManager"
    /\ tmPc = "rollback"
    /\ rbIndex < 1
    /\ operations' = <<>>
    /\ rollbackInProgress' = FALSE
    /\ tmPc' = "idle"
    /\ log' = log \o <<Ev("rollbackEnd", 0, rollbackErrors = <<>>, NoError)>>
                  \o (IF rbCaller = "executeOperation"
                      THEN <<Ev("throw", 0, FALSE, Rethrown(pendingError, rollbackErrors))>>
                      ELSE <<>>)
    /\ UNCHANGED <<outsideTx, unit, calls, nextOp, rollbackErrors, loopVars, compVars>>

\* commit()
Commit ==
    /\ unit = "TransactionManager"
    /\ tmPc = "idle"
    /\ calls < MaxCalls
    /\ calls' = calls + 1
    /\ operations' = CommittedOperations(operations)
    /\ log' = Append(log, Ev("commit", 0, TRUE, NoError))
    /\ UNCHANGED <<outsideTx, unit, rollbackInProgress, tmPc, nextOp, rollbackErrors, loopVars, compVars>>

TxNext ==
    \/ \E ok \in BOOLEAN : ExecuteOperation(ok)
    \/ Rollback
    \/ \E ok \in BOOLEAN : RollbackStep(ok)
    \/ RollbackReturn
    \/ Commit

(* ========================= CompositeOperation ========================= *)

\* rollbackExecuted: for (let i = this.executedOperations.length - 1; ...
RollbackExecutedStartSkipsLast(ops) == Len(ops) - 1
RollbackExecutedStart(ops) == Len(ops)

\* rollbackExecuted: the try/catch around operation.rollback(result)
NextRollbackExecutedIndex(i, ok) == i - 1

\* rollbackExecuted: this.executedOperations = []
RollbackExecutedKeeps(ops) == ops
RollbackExecutedLeaves(ops) == <<>>

\* execute() is called
CompositeExecute ==
    /\ unit = "CompositeOperation"
    /\ compPc = "ready"
    /\ compPc' = "execute"
    /\ compIdx' = 1
    /\ UNCHANGED <<outsideTx, unit, log, calls, compOperations, executedOperations, txVars, loopVars>>

\* one iteration of execute's loop: operation compIdx executes or throws
CompositeExecuteStep(ok) ==
    /\ unit = "CompositeOperation"
    /\ compPc = "execute"
    /\ compIdx <= compOperations
    /\ IF ok
       THEN /\ executedOperations' = Append(executedOperations, compIdx)
            /\ log' = Append(log, Ev("execute", compIdx, TRUE, NoError))
            /\ compIdx' = compIdx + 1
            /\ UNCHANGED <<compPc, loopVars>>
       ELSE /\ log' = log \o <<Ev("execute", compIdx, FALSE, ExecError(compIdx)),
                              Ev("rollbackBegin", 0, TRUE, NoError)>>
            /\ compPc' = "rollbackExecuted"
            /\ rbIndex' = RollbackExecutedStart(executedOperations)
            /\ rbCaller' = "execute"
            /\ pendingError' = ExecError(compIdx)
            /\ UNCHANGED <<executedOperations, compIdx>>
    /\ UNCHANGED <<outsideTx, unit, calls, compOperations, txVars>>

\* execute() returns its results
CompositeExecuteReturn ==
    /\ unit = "CompositeOperation"
    /\ compPc = "execute"
    /\ compIdx > compOperations
    /\ compPc' = "returned"
    /\ log' = Append(log, Ev("return", 0, TRUE, NoError))
    /\ UNCHANGED <<outsideTx, unit, calls, compOperations, executedOperations, compIdx, txVars, loopVars>>

\* rollback(result) is called on the composite (by a TransactionManager, after
\* execute() returned, or by any owner after execute() threw)
CompositeRollback ==
    /\ unit = "CompositeOperation"
    /\ compPc \in {"returned", "thrown", "rolledBack"}
    /\ calls < MaxCalls
    /\ calls' = calls + 1
    /\ compPc' = "rollbackExecuted"
    /\ rbIndex' = RollbackExecutedStart(executedOperations)
    /\ rbCaller' = "caller"
    /\ pendingError' = NoError
    /\ log' = Append(log, Ev("rollbackBegin", 0, TRUE, NoError))
    /\ UNCHANGED <<outsideTx, unit, compOperations, executedOperations, compIdx, txVars>>

\* one iteration of rollbackExecuted's loop
RollbackExecutedStep(ok) ==
    /\ unit = "CompositeOperation"
    /\ compPc = "rollbackExecuted"
    /\ rbIndex >= 1
    /\ LET op == executedOperations[rbIndex] IN
       log' = Append(log, Ev("rollback", op, ok, IF ok THEN NoError ELSE RollbackError(op)))
    /\ rbIndex' = NextRollbackExecutedIndex(rbIndex, ok)
    /\ UNCHANGED <<outsideTx, unit, calls, compVars, txVars, rbCaller, pendingError>>

\* the end of rollbackExecuted; execute's catch block then re-throws
RollbackExecutedReturn ==
    /\ unit = "CompositeOperation"
    /\ compPc = "rollbackExecuted"
    /\ rbIndex < 1
    /\ executedOperations' = RollbackExecutedLeaves(executedOperations)
    /\ compPc' = IF rbCaller = "execute" THEN "thrown" ELSE "rolledBack"
    /\ log' = log \o <<Ev("rollbackEnd", 0, TRUE, NoError)>>
                  \o (IF rbCaller = "execute"
                      THEN <<Ev("throw", 0, FALSE, pendingError)>>
                      ELSE <<>>)
    /\ UNCHANGED <<outsideTx, unit, calls, compOperations, compIdx, txVars, loopVars>>

CompNext ==
    \/ CompositeExecute
    \/ \E ok \in BOOLEAN : CompositeExecuteStep(ok)
    \/ CompositeExecuteReturn
    \/ CompositeRollback
    \/ \E ok \in BOOLEAN : RollbackExecutedStep(ok)
    \/ RollbackExecutedReturn

(* =================== bulk and mapping-file operations ================= *)

\* const BATCH_SIZE = 10 of ArchivePagesOperation.execute
ArchiveBatchSize == 10
\* const BATCH_SIZE = 5 of CreatePagesOperation.execute
CreateBatchSize == 5
\* const BATCH_SIZE = 8 of archivePagesInParallel
ParallelBatchSize == 8

\* input lists of up to MaxPages records are tried, and one list that is one
\* record longer than a batch
MaxPages == 3

\* values of the opaque meta object of the mapping file
MaxMeta == 1

Min(a, b) == IF a < b THEN a ELSE b

Range(s) == {s[k] : k \in 1..Len(s)}

\* a page that was in the remote database before, and the page the remote
\* store creates for task t
ExistingPage(i) == <<"existing", i>>
CreatedPage(t) == <<"created", t>>

\* one request to the remote store: pages.update({archived: true}) is
\* "archive", pages.update({archived: false}) is "unarchive", pages.create
\* is "create"
Request(kind, page, ok) == [kind |-> kind, page |-> page, ok |-> ok]

\* Array.prototype.slice(i, j) of a 0-based array, on a 1-based sequence
Slice(s, i, j) == SubSeq(s, i + 1, Min(j, Len(s)))

\* the accumulator of a bulk loop: the results object, the list the operation
\* keeps for its rollback (done), the requests issued, whether it threw
EmptyResults ==
    [succeeded |-> 0, failed |-> 0, errors |-> <<>>, done |-> <<>>,
     requests |-> <<>>, threw |-> FALSE]

\* the requests of one batch, issued together: batch.map(page => archivePage(page))
IssueBatch(kind, batch, F) ==
    [k \in 1..Len(batch) |-> Request(kind, batch[k], batch[k] \notin F)]

\* await Promise.allSettled(batchPromises) never rejects
AwaitRejectsOnFailure(batch, F) == \E k \in 1..Len(batch) : batch[k] \in F
AwaitRejects(batch, F) == FALSE

\* for (const [index, result] of batchResults.entries()) { ... }
RECURSIVE SettleBatch(_, _, _, _)
SettleBatch(batch, F, k, acc) ==
    IF k > Len(batch) THEN acc
    ELSE SettleBatch(batch, F, k + 1,
             IF batch[k] \notin F
             THEN [acc EXCEPT !.succeeded = @ + 1, !.done = Append(@, batch[k])]
             ELSE [acc EXCEPT !.failed = @ + 1, !.errors = Append(@, batch[k])])

\* the step of the batch loops: i += BATCH_SIZE
NextBatchSkipsOne(i, size) == i + size + 1
NextBatch(i, size) == i + size

\* ArchivePagesOperation.execute: for (let i = 0; i < this.pages.length; i += BATCH_SIZE);
\* F is the set of pages whose archive request fails
RECURSIVE ArchiveLoop(_, _, _, _)
ArchiveLoop(pgs, F, i, acc) ==
    IF ~(i < Len(pgs)) THEN acc
    ELSE LET batch == Slice(pgs, i, i + ArchiveBatchSize)
             issued == [acc EXCEPT !.requests = @ \o IssueBatch("archive", batch, F)]
         IN  IF AwaitRejects(batch, F)
             THEN [issued EXCEPT !.threw = TRUE]
             ELSE ArchiveLoop(pgs, F, NextBatch(i, ArchiveBatchSize),
                              SettleBatch(batch, F, 1, issued))

\* CreatePagesOperation.execute, inner loop: for (const taskInfo of batch) try/catch;
\* F is the set of tasks whose create request fails
RECURSIVE CreateBatch(_, _, _, _)
CreateBatch(batch, F, k, acc) ==
    IF k > Len(batch) THEN acc
    ELSE LET t == batch[k]
             req == Request("create", CreatedPage(t), t \notin F)
         IN  CreateBatch(batch, F, k + 1,
                 IF t \notin F
                 THEN [acc EXCEPT !.succeeded = @ + 1,
                                  !.done = Append(@, CreatedPage(t)),
                                  !.requests = Append(@, req)]
                 ELSE [acc EXCEPT !.failed = @ + 1,
                                  !.errors = Append(@, t),
                                  !.requests = Append(@, req)])

\* CreatePagesOperation.execute, outer loop
RECURSIVE CreateLoop(_, _, _, _)
CreateLoop(tasks, F, i, acc) ==
    IF ~(i < Len(tasks)) THEN acc
    ELSE CreateLoop(tasks, F, NextBatch(i, CreateBatchSize),
                    CreateBatch(Slice(tasks, i, i + CreateBatchSize), F, 1, acc))

\* archivePagesInParallel, one batch: every page's promise catches its own
\* error and resolves to {success: false}, so Promise.all does not reject
ParallelBatchRejects(batch, F) == FALSE

\* batchResults.filter((r) => !r.success).forEach((r) => errors.push(...))
RECURSIVE FailedOf(_, _, _)
FailedOf(batch, F, k) ==
    IF k > Len(batch) THEN <<>>
    ELSE (IF batch[k] \in F THEN <<batch[k]>> ELSE <<>>) \o FailedOf(batch, F, k + 1)

\* archivePagesInParallel: for (let i = 0; i < pages.length; i += BATCH_SIZE);
\* F is the set of pages whose archive request fails after its retries
RECURSIVE ParallelLoop(_, _, _, _)
ParallelLoop(pgs, F, i, acc) ==
    IF ~(i < Len(pgs)) THEN acc
    ELSE LET batchEnd == Min(i + ParallelBatchSize, Len(pgs))
             batch == Slice(pgs, i, batchEnd)
             issued == [acc EXCEPT !.requests = @ \o IssueBatch("archive", batch, F)]
             failedInBatch == FailedOf(batch, F, 1)
         IN  ParallelLoop(pgs, F, NextBatch(i, ParallelBatchSize),
                 IF ParallelBatchRejects(batch, F)
                 THEN \* catch (batchError)
                      [issued EXCEPT !.failed = @ + Len(batch),
                                     !.errors = @ \o batch]
                 ELSE [issued EXCEPT !.succeeded = @ + (Len(batch) - Len(failedInBatch)),
                                     !.failed = @ + Len(failedInBatch),
                                     !.errors = @ \o failedInBatch])

\* ArchivePagesOperation.rollback restores this.archivedPages
RestoresInput(archived, input) == input
RestoreTargets(archived, input) == archived

\* CreatePagesOperation.rollback archives this.createdPages.map((cp) => ({id: cp.pageId}))
RemovesAllButLast(created) == SubSeq(created, 1, Len(created) - 1)
RemoveTargets(created) == created

\* ArchivePagesOperation.execute
ArchiveExecute ==
    /\ unit = "ArchivePagesOperation"
    /\ opPc = "ready"
    /\ \E F \in SUBSET Range(pages) :
          LET r == ArchiveLoop(pages, F, 0,
                               [EmptyResults EXCEPT !.done = archivedPages])
          IN  /\ results' = [succeeded |-> r.succeeded, failed |-> r.failed,
                             errors |-> r.errors]
              /\ archivedPages' = r.done
              /\ requests' = requests \o r.requests
              /\ opPc' = IF r.threw THEN "thrown" ELSE "returned"
    /\ UNCHANGED <<outsideOps, unit, pages, createdPages, fileVars>>

\* ArchivePagesOperation.rollback; G is the set of pages whose restore request fails
ArchiveRollback ==
    /\ unit = "ArchivePagesOperation"
    /\ opPc = "returned"
    /\ \E G \in SUBSET Range(archivedPages) :
          requests' = requests \o
              IssueBatch("unarchive", RestoreTargets(archivedPages, pages), G)
    /\ opPc' = "rolledBack"
    /\ UNCHANGED <<outsideOps, unit, pages, results, archivedPages, createdPages, fileVars>>

\* CreatePagesOperation.execute
CreateExecute ==
    /\ unit = "CreatePagesOperation"
    /\ opPc = "ready"
    /\ \E F \in SUBSET Range(pages) :
          LET r == CreateLoop(pages, F, 0, [EmptyResults EXCEPT !.done = createdPages])
          IN  /\ results' = [succeeded |-> r.succeeded, failed |-> r.failed,
                             errors |-> r.errors]
              /\ createdPages' = r.done
              /\ requests' = requests \o r.requests
              /\ opPc' = IF r.threw THEN "thrown" ELSE "returned"
    /\ UNCHANGED <<outsideOps, unit, pages, archivedPages, fileVars>>

\* CreatePagesOperation.rollback: a new ArchivePagesOperation over the created
\* pages is executed; F is the set of pages whose archive request fails
CreateRollback ==
    /\ unit = "CreatePagesOperation"
    /\ opPc = "returned"
    /\ \E F \in SUBSET Range(createdPages) :
          LET r == ArchiveLoop(RemoveTargets(createdPages), F, 0, EmptyResults)
          IN  /\ requests' = requests \o r.requests
              /\ opPc' = IF r.threw THEN "thrown" ELSE "rolledBack"
    /\ UNCHANGED <<outsideOps, unit, pages, results, archivedPages, createdPages, fileVars>>

\* archivePagesInParallel(pages)
ArchivePagesInParallel ==
    /\ unit = "archivePagesInParallel"
    /\ opPc = "ready"
    /\ \E F \in SUBSET Range(pages) :
          LET r == ParallelLoop(pages, F, 0, EmptyResults)
          IN  /\ results' = [succeeded |-> r.succeeded, failed |-> r.failed,
                             errors |-> r.errors]
              /\ requests' = requests \o r.requests
              /\ opPc' = IF r.threw THEN "thrown" ELSE "returned"
    /\ UNCHANGED <<outsideOps, unit, pages, archivedPages, createdPages, fileVars>>

(* ------------------------- the mapping file --------------------------- *)

\* JSON.stringify({mapping, meta}, null, 2): the content of the file
Content(mapping, meta) == [mapping |-> mapping, meta |-> meta]
\* JSON.stringify({ mapping: {}, meta: {} }, null, 2)
EmptyContent == Content({}, 0)

\* a file that does not exist; also the value null of originalContent
NoFile == [exists |-> FALSE, content |-> EmptyContent]
FileWith(c) == [exists |-> TRUE, content |-> c]

\* if (fs.existsSync(f)) this.originalContent = fs.readFileSync(f, 'utf8')
Backup(f, original) == IF f.exists THEN f ELSE original

\* UpdateMappingOperation.rollback
UpdateRestored(f, original) ==
    IF original # NoFile THEN original
    ELSE IF f.exists THEN NoFile ELSE f

\* ClearMappingOperation.rollback
ClearRestored(f, original) ==
    IF original # NoFile THEN original ELSE f

\* UpdateMappingOperation.execute
UpdateExecute ==
    /\ unit = "UpdateMappingOperation"
    /\ opPc = "ready"
    /\ originalContent' = Backup(file, originalContent)
    /\ file' = FileWith(newContent)
    /\ opPc' = "returned"
    /\ UNCHANGED <<outsideOps, unit, bulkVarsButPc, fileBefore, newContent>>

UpdateRollback ==
    /\ unit = "UpdateMappingOperation"
    /\ opPc = "returned"
    /\ file' = UpdateRestored(file, originalContent)
    /\ opPc' = "rolledBack"
    /\ UNCHANGED <<outsideOps, unit, bulkVarsButPc, fileBefore, originalContent, newContent>>

\* ClearMappingOperation.execute
ClearExecute ==
    /\ unit = "ClearMappingOperation"
    /\ opPc = "ready"
    /\ originalContent' = Backup(file, originalContent)
    /\ file' = FileWith(EmptyContent)
    /\ opPc' = "returned"
    /\ UNCHANGED <<outsideOps, unit, bulkVarsButPc, fileBefore, newContent>>

ClearRollback ==
    /\ unit = "ClearMappingOperation"
    /\ opPc = "returned"
    /\ file' = ClearRestored(file, originalContent)
    /\ opPc' = "rolledBack"
    /\ UNCHANGED <<outsideOps, unit, bulkVarsButPc, fileBefore, originalContent, newContent>>

(* -------------- specification of the bulk and mapping operations ------ *)

BulkIdle ==
    /\ pages = <<>>
    /\ opPc = "ready"
    /\ results = [succeeded |-> 0, failed |-> 0, errors |-> <<>>]
    /\ archivedPages = <<>>
    /\ createdPages = <<>>
    /\ requests = <<>>

ResetIdle ==
    /\ resetPc = "idle"
    /\ localTasks = <<>>

FileIdle ==
    /\ file = NoFile
    /\ fileBefore = NoFile
    /\ originalContent = NoFile
    /\ newContent = EmptyContent

\* the lengths of the input lists tried for a loop of the given batch size
InputSizes(batchSize) == (0..MaxPages) \cup {batchSize + 1}

\* the mappings a mapping file may hold: task id -> page
Mappings ==
    {{}, {<<1, ExistingPage(1)>>}, {<<1, ExistingPage(1)>>, <<2, ExistingPage(2)>>}}
Contents == {Content(m, k) : m \in Mappings, k \in 0..MaxMeta}
Files == {NoFile} \cup {FileWith(c) : c \in Contents}

InitOps ==
    /\ log = <<>>
    /\ calls = 0
    /\ TxIdle /\ CompIdle /\ LoopIdle /\ ResetIdle /\ MoreIdle
    /\ opPc = "ready"
    /\ results = [succeeded |-> 0, failed |-> 0, errors |-> <<>>]
    /\ archivedPages = <<>>
    /\ createdPages = <<>>
    /\ requests = <<>>
    /\ originalContent = NoFile
    /\ \/ /\ unit = "ArchivePagesOperation"
          /\ \E n \in InputSizes(ArchiveBatchSize) : pages = [i \in 1..n |-> ExistingPage(i)]
          /\ file = NoFile /\ fileBefore = NoFile /\ newContent = EmptyContent
       \/ /\ unit = "CreatePagesOperation"
          /\ \E n \in InputSizes(CreateBatchSize) : pages = [i \in 1..n |-> i]
          /\ file = NoFile /\ fileBefore = NoFile /\ newContent = EmptyContent
       \/ /\ unit = "archivePagesInParallel"
          /\ \E n \in InputSizes(ParallelBatchSize) : pages = [i \in 1..n |-> ExistingPage(i)]
          /\ file = NoFile /\ fileBefore = NoFile /\ newContent = EmptyContent
       \/ /\ unit = "UpdateMappingOperation"
          /\ pages = <<>>
          /\ file \in Files /\ fileBefore = file /\ newContent \in Contents
       \/ /\ unit = "ClearMappingOperation"
          /\ pages = <<>>
          /\ file \in Files /\ fileBefore = file /\ newContent = EmptyContent

OpsNext ==
    \/ ArchiveExecute
    \/ ArchiveRollback
    \/ CreateExecute
    \/ CreateRollback
    \/ ArchivePagesInParallel
    \/ UpdateExecute
    \/ UpdateRollback
    \/ ClearExecute
    \/ ClearRollback

SpecOps == InitOps /\ [][OpsNext]_vars

(* ========================= ResetNotionCommand ========================= *)

\* pages found in the remote database by fetchExistingPages
MaxExisting == 2
\* tasks of the local store, recreated by SyncTasksOperation
MaxTasks == 2

\* the name of each operation the reset command hands to the transaction manager
ArchiveOp == "Archive Pages"
ClearOp == "Clear Mapping"
SyncOp == "Sync TaskMaster Tasks"

\* the pages of the remote database that are not archived, after the
\* requests reqs were answered, starting from the pages live
RECURSIVE LivePages(_, _)
LivePages(live, reqs) ==
    IF reqs = <<>> THEN live
    ELSE LET r == Head(reqs) IN
         LivePages(IF ~r.ok THEN live
                   ELSE IF r.kind = "archive" THEN live \ {r.page}
                   ELSE live \cup {r.page},
                   Tail(reqs))

\* syncTasksWithNotion(emptyPrevious, rawTaggedData): every task is `added`,
\* in order; addTaskToNotion creates the page, then saves the mapping with
\* the new entry; the first create that fails is thrown.  k tasks are created
\* before the failure (k = Len(tasks) when none fails).
SyncRequests(tasks, k) ==
    [t \in 1..Min(k + 1, Len(tasks)) |-> Request("create", CreatedPage(tasks[t]), t <= k)]

\* the mapping file after the k-th addTaskToNotion saved it
SyncedFile(f, tasks, k) ==
    IF k = 0 THEN f
    ELSE FileWith(Content(
             (IF f.exists THEN f.content.mapping ELSE {})
                 \cup {<<tasks[t], CreatedPage(tasks[t])>> : t \in 1..k},
             IF f.exists THEN f.content.meta ELSE 0))

\* the catch block of TransactionManager.executeOperation, or of
\* BaseNotionCommand.execute, awaits transactionManager.rollback()
ResetRollbackEnter ==
    /\ ~RollbackGuard
    /\ rollbackInProgress' = TRUE
    /\ tmPc' = "rollback"
    /\ rbIndex' = RollbackLoopStart(operations)
    /\ resetPc' = "rollback"

\* Phase 2: archive all existing pages through the transaction manager
ResetArchive ==
    /\ unit = "ResetNotionCommand"
    /\ resetPc = "fetched"
    /\ ~ExecuteGuard
    /\ IF Len(pages) > 0
       THEN \E F \in SUBSET Range(pages) :
               LET r == ArchiveLoop(pages, F, 0, EmptyResults)
               IN  /\ results' = [succeeded |-> r.succeeded, failed |-> r.failed,
                                  errors |-> r.errors]
                   /\ archivedPages' = r.done
                   /\ requests' = requests \o r.requests
                   /\ operations' = Append(operations, ArchiveOp)
       ELSE UNCHANGED <<results, archivedPages, requests, operations>>
    /\ resetPc' = "archived"
    /\ UNCHANGED <<outsideReset, unit, pages, localTasks, fileVars, rollbackInProgress, tmPc, rbIndex>>

\* Phase 3: clear the mapping file through the transaction manager; the write
\* succeeds (ok) or throws
ResetClear(ok) ==
    /\ unit = "ResetNotionCommand"
    /\ resetPc = "archived"
    /\ ~ExecuteGuard
    /\ originalContent' = Backup(file, originalContent)
    /\ IF ok
       THEN /\ file' = FileWith(EmptyContent)
            /\ operations' = Append(operations, ClearOp)
            /\ resetPc' = "cleared"
            /\ UNCHANGED <<rollbackInProgress, tmPc, rbIndex>>
       ELSE /\ ResetRollbackEnter
            /\ UNCHANGED <<file, operations>>
    /\ UNCHANGED <<outsideReset, unit, pages, localTasks, results, archivedPages, requests,
                   fileBefore, newContent>>

\* Phase 4: load the local tasks; `No TaskMaster tasks found` is thrown to
\* BaseNotionCommand.execute
ResetLoad(ok) ==
    /\ unit = "ResetNotionCommand"
    /\ resetPc = "cleared"
    /\ IF ok
       THEN /\ resetPc' = "loaded"
            /\ UNCHANGED <<rollbackInProgress, tmPc, rbIndex>>
       ELSE ResetRollbackEnter
    /\ UNCHANGED <<outsideReset, unit, pages, localTasks, results, archivedPages, requests,
                   fileVars, operations>>

\* Phase 5: SyncTasksOperation.execute through the transaction manager; k
\* pages are created before a create fails (all of them when k = Len(localTasks))
ResetSync(k) ==
    /\ unit = "ResetNotionCommand"
    /\ resetPc = "loaded"
    /\ ~ExecuteGuard
    /\ k \in 0..Len(localTasks)
    /\ requests' = requests \o SyncRequests(localTasks, k)
    /\ file' = SyncedFile(file, localTasks, k)
    /\ IF k = Len(localTasks)
       THEN /\ operations' = Append(operations, SyncOp)
            /\ resetPc' = "synced"
            /\ UNCHANGED <<rollbackInProgress, tmPc, rbIndex>>
       ELSE /\ ResetRollbackEnter
            /\ UNCHANGED operations
    /\ UNCHANGED <<outsideReset, unit, pages, localTasks, results, archivedPages,
                   fileBefore, originalContent, newContent>>

\* Phase 6 and the commit: updateHierarchicalRelations returns (ok), and
\* BaseNotionCommand.execute commits, or it throws to BaseNotionCommand.execute
ResetRelations(ok) ==
    /\ unit = "ResetNotionCommand"
    /\ resetPc = "synced"
    /\ IF ok
       THEN /\ operations' = CommittedOperations(operations)
            /\ resetPc' = "done"
            /\ UNCHANGED <<rollbackInProgress, tmPc, rbIndex>>
       ELSE /\ ResetRollbackEnter
            /\ UNCHANGED operations
    /\ UNCHANGED <<outsideReset, unit, pages, localTasks, results, archivedPages, requests,
                   fileVars>>

\* one iteration of TransactionManager.rollback on the recorded operations,
\* for the operations that issue no request: ClearMappingOperation.rollback
\* restores the file, SyncTasksOperation.rollback only logs a warning
ResetRollbackStep ==
    /\ unit = "ResetNotionCommand"
    /\ resetPc = "rollback"
    /\ rbIndex >= 1
    /\ operations[rbIndex] \in {ClearOp, SyncOp}
    /\ file' = IF operations[rbIndex] = ClearOp
               THEN ClearRestored(file, originalContent)
               ELSE file
    /\ rbIndex' = NextRollbackIndex(rbIndex, TRUE)
    /\ UNCHANGED <<outsideReset, unit, pages, localTasks, results, archivedPages, requests,
                   fileBefore, originalContent, newContent, operations,
                   rollbackInProgress, tmPc, resetPc>>

\* the iteration that rolls back the archive operation; G is the set of
\* pages whose restore request fails
ResetRollbackArchive ==
    /\ unit = "ResetNotionCommand"
    /\ resetPc = "rollback"
    /\ rbIndex >= 1
    /\ operations[rbIndex] = ArchiveOp
    /\ \E G \in SUBSET Range(archivedPages) :
          requests' = requests \o
              IssueBatch("unarchive", RestoreTargets(archivedPages, pages), G)
    /\ rbIndex' = NextRollbackIndex(rbIndex, TRUE)
    /\ UNCHANGED <<outsideReset, unit, pages, localTasks, results, archivedPages,
                   fileVars, operations, rollbackInProgress, tmPc, resetPc>>

\* the end of the rollback; BaseNotionCommand.execute returns the error result
ResetRollbackReturn ==
    /\ unit = "ResetNotionCommand"
    /\ resetPc = "rollback"
    /\ rbIndex < 1
    /\ operations' = <<>>
    /\ rollbackInProgress' = FALSE
    /\ tmPc' = "idle"
    /\ resetPc' = "failed"
    /\ UNCHANGED <<outsideReset, unit, pages, localTasks, results, archivedPages, requests,
                   fileVars, rbIndex>>

InitReset ==
    /\ unit = "ResetNotionCommand"
    /\ log = <<>>
    /\ calls = 0
    /\ TxIdle /\ CompIdle /\ LoopIdle /\ MoreIdle
    /\ resetPc = "fetched"
    /\ \E n \in 0..MaxExisting : pages = [i \in 1..n |-> ExistingPage(i)]
    /\ \E n \in 0..MaxTasks : localTasks = [i \in 1..n |-> i]
    /\ opPc = "ready"
    /\ results = [succeeded |-> 0, failed |-> 0, errors |-> <<>>]
    /\ archivedPages = <<>>
    /\ createdPages = <<>>
    /\ requests = <<>>
    /\ file \in Files
    /\ fileBefore = file
    /\ originalContent = NoFile
    /\ newContent = EmptyContent

ResetNext ==
    \/ ResetArchive
    \/ \E ok \in BOOLEAN : ResetClear(ok)
    \/ \E ok \in BOOLEAN : ResetLoad(ok)
    \/ \E k \in 0..MaxTasks : ResetSync(k)
    \/ \E ok \in BOOLEAN : ResetRelations(ok)
    \/ ResetRollbackStep
    \/ ResetRollbackArchive
    \/ ResetRollbackReturn

SpecReset == InitReset /\ [][ResetNext]_vars

(* ============== outstanding requests of the bulk operations =========== *)

\* updateHierarchicalRelations: const BATCH_SIZE = 10
RelationBatchSize == 10

\* the bulk operations of the framework
FlightOps ==
    {"ArchivePagesOperation.execute", "ArchivePagesOperation.rollback",
     "CreatePagesOperation.rollback", "archivePagesInParallel",
     "updateHierarchicalRelations"}

\* the BATCH_SIZE of each loop; CreatePagesOperation.rollback executes a new
\* ArchivePagesOperation
FlightBatchSize(op) ==
    CASE op = "ArchivePagesOperation.execute" -> ArchiveBatchSize
      [] op = "CreatePagesOperation.rollback" -> ArchiveBatchSize
      [] op = "archivePagesInParallel" -> ParallelBatchSize
      [] op = "updateHierarchicalRelations" -> RelationBatchSize
      [] OTHER -> 0

\* the end of the slice whose requests are issued together at offset i of a
\* list of n items: pages.slice(i, i + BATCH_SIZE) in the loops, and the whole
\* of this.archivedPages in ArchivePagesOperation.rollback, which has no loop
FlightBatchEnd(op, i, n) ==
    IF op = "ArchivePagesOperation.rollback" THEN n
    ELSE Min(i + FlightBatchSize(op), n)

\* the request an item's promise issues first
FirstRequest(op) ==
    CASE op = "ArchivePagesOperation.rollback" -> "unarchive"
      [] op = "updateHierarchicalRelations" -> "retrieve"
      [] OTHER -> "archive"

\* batch.map(...): the promises of the slice are created together, each one
\* issuing its first request; in updateHierarchicalRelations the items in
\* skip return null before any request (no page id, or no relation)
FlightIssue ==
    /\ unit = "bulk requests"
    /\ flightPc = "loop"
    /\ flightI < flightN
    /\ LET batch == (flightI + 1)..FlightBatchEnd(flightOp, flightI, flightN)
       IN  \E skip \in (IF flightOp = "updateHierarchicalRelations"
                        THEN SUBSET batch ELSE {{}}) :
               inFlight' = {<<k, FirstRequest(flightOp)>> : k \in batch \ skip}
    /\ flightPc' = "await"
    /\ UNCHANGED <<flightOp, flightN, flightI>>
    /\ UNCHANGED <<unit, log, calls, txVars, compVars, loopVars, bulkVars, fileVars, resetVars,
                   retryVars, diffVars, mapVars, laterVars>>

\* one outstanding request is answered; in updateHierarchicalRelations the
\* answer of notion.pages.retrieve is followed (next) by notion.pages.update
\* of the same item unless the page is archived or the retrieve failed
FlightAnswer(r, next) ==
    /\ unit = "bulk requests"
    /\ flightPc = "await"
    /\ r \in inFlight
    /\ inFlight' =
          IF flightOp = "updateHierarchicalRelations" /\ r[2] = "retrieve" /\ next
          THEN (inFlight \ {r}) \cup {<<r[1], "update">>}
          ELSE inFlight \ {r}
    /\ UNCHANGED <<flightOp, flightN, flightPc, flightI>>
    /\ UNCHANGED <<unit, log, calls, txVars, compVars, loopVars, bulkVars, fileVars, resetVars,
                   retryVars, diffVars, mapVars, laterVars>>

\* await Promise.allSettled(...) / await Promise.all(...) resumes when every
\* promise of the slice has settled; the loop moves to the next slice
FlightAwaited ==
    /\ unit = "bulk requests"
    /\ flightPc = "await"
    /\ inFlight = {}
    /\ flightI' = FlightBatchEnd(flightOp, flightI, flightN)
    /\ flightPc' = "loop"
    /\ UNCHANGED <<flightOp, flightN, inFlight>>
    /\ UNCHANGED <<unit, log, calls, txVars, compVars, loopVars, bulkVars, fileVars, resetVars,
                   retryVars, diffVars, mapVars, laterVars>>

\* the loop condition i < length fails (or archivedPages.length === 0)
FlightReturn ==
    /\ unit = "bulk requests"
    /\ flightPc = "loop"
    /\ ~(flightI < flightN)
    /\ flightPc' = "returned"
    /\ UNCHANGED <<flightOp, flightN, flightI, inFlight>>
    /\ UNCHANGED <<unit, log, calls, txVars, compVars, loopVars, bulkVars, fileVars, resetVars,
                   retryVars, diffVars, mapVars, laterVars>>

InitFlight ==
    /\ unit = "bulk requests"
    /\ log = <<>>
    /\ calls = 0
    /\ TxIdle /\ CompIdle /\ LoopIdle /\ BulkIdle /\ FileIdle /\ ResetIdle /\ RetryIdle /\ DiffIdle /\ MapIdle /\ LaterIdle
    /\ flightOp \in FlightOps
    /\ flightN \in (0..MaxPages) \cup {ParallelBatchSize + 1, ArchiveBatchSize + 1}
    /\ flightPc = "loop"
    /\ flightI = 0
    /\ inFlight = {}

FlightNext ==
    \/ FlightIssue
    \/ \E r \in inFlight, next \in BOOLEAN : FlightAnswer(r, next)
    \/ FlightAwaited
    \/ FlightReturn

SpecFlight == InitFlight /\ [][FlightNext]_vars

(* ============================ executeWithRetry ======================== *)

\* the largest retries option tried
MaxRetries == 3

\* const { retries = 5, minDelay = 500, maxDelay = 8000, factor = 2 } = options
DefaultRetries == 5
DefaultMinDelay == 500
DefaultMaxDelay == 8000
DefaultFactor == 2

\* the outcomes of one invocation of fn: it returns (Ok), or throws an error
\* with the given status, code and body.code (0 and "" stand for an absent
\* field)
Ok == [ok |-> TRUE, status |-> 0, code |-> "", bodyCode |-> ""]
Err(status, code, bodyCode) ==
    [ok |-> FALSE, status |-> status, code |-> code, bodyCode |-> bodyCode]
Errors ==
    {Err(429, "", ""), Err(0, "rate_limited", ""), Err(0, "", "rate_limited"),
     Err(409, "", ""),
     Err(0, "ENOTFOUND", ""), Err(0, "ECONNRESET", ""), Err(0, "ETIMEDOUT", ""),
     Err(400, "validation_error", ""), Err(0, "ECONNREFUSED", "")}

IsRateLimit(e) == e.status = 429 \/ e.code = "rate_limited" \/ e.bodyCode = "rate_limited"
IsConflict(e) == e.status = 409
IsNetwork(e) == e.code = "ENOTFOUND" \/ e.code = "ECONNRESET" \/ e.code = "ETIMEDOUT"

\* isRateLimit || isConflict || isNetwork
RetriesEveryError(e) == TRUE
Retryable(e) == IsRateLimit(e) \/ IsConflict(e) \/ IsNetwork(e)

\* attempt < retries
BudgetLeftInclusive(a, n) == a <= n
BudgetLeft(a, n) == a < n

\* the value the destructuring gives to retries: the property of the options
\* object when it has one, the default otherwise (options absent, an object
\* without the property, or a number)
RetriesOf(options) ==
    IF options.kind = "object" /\ options.has THEN options.retries ELSE DefaultRetries

\* executeWithRetry(() => notion.pages.update(...), 3) of
\* archivePagesInParallel: the second argument is the number 3 (for a number,
\* retries holds the number itself)
ArchiveRetries == 3
ArchivePageOptions == [kind |-> "number", has |-> FALSE, retries |-> ArchiveRetries]

\* the options a caller may pass
RetryOptions ==
    {[kind |-> "object", has |-> TRUE, retries |-> n] : n \in 0..MaxRetries}
        \cup {[kind |-> "object", has |-> FALSE, retries |-> 0],
              [kind |-> "undefined", has |-> FALSE, retries |-> 0],
              [kind |-> "number", has |-> FALSE, retries |-> 0],
              ArchivePageOptions}

\* try { return await fn() } catch (e) { ... }: one invocation of fn and the
\* catch block up to the timer; out is Ok or the error thrown
RetryInvoke(out) ==
    /\ unit = "executeWithRetry"
    /\ retryPc = "call"
    /\ invocations' = Append(invocations, out)
    /\ IF out.ok
       THEN /\ retryPc' = "returned"
            /\ retryResult' = <<"returned", Len(invocations) + 1>>
       ELSE IF Retryable(out) /\ BudgetLeft(attempt, RetriesOf(retryOptions))
       THEN /\ retryPc' = "wait"
            /\ UNCHANGED retryResult
       ELSE /\ retryPc' = "thrown"
            /\ retryResult' = <<"thrown", Len(invocations) + 1>>
    /\ UNCHANGED <<retryOptions, attempt, delay>>
    /\ UNCHANGED <<unit, log, calls, txVars, compVars, loopVars, bulkVars, fileVars, resetVars,
                   flightVars, diffVars, mapVars, laterVars>>

\* the timer fires: delay *= factor; attempt++; continue
RetryWait ==
    /\ unit = "executeWithRetry"
    /\ retryPc = "wait"
    /\ delay' = delay * DefaultFactor
    /\ attempt' = attempt + 1
    /\ retryPc' = "call"
    /\ UNCHANGED <<retryOptions, invocations, retryResult>>
    /\ UNCHANGED <<unit, log, calls, txVars, compVars, loopVars, bulkVars, fileVars, resetVars,
                   flightVars, diffVars, mapVars, laterVars>>

InitRetry ==
    /\ unit = "executeWithRetry"
    /\ log = <<>>
    /\ calls = 0
    /\ TxIdle /\ CompIdle /\ LoopIdle /\ BulkIdle /\ FileIdle /\ ResetIdle /\ FlightIdle /\ DiffIdle /\ MapIdle /\ LaterIdle
    /\ retryOptions \in RetryOptions
    /\ retryPc = "call"
    /\ attempt = 0
    /\ delay = DefaultMinDelay
    /\ invocations = <<>>
    /\ retryResult = <<"none", 0>>

RetryNext ==
    \/ \E out \in Errors \cup {Ok} : RetryInvoke(out)
    \/ RetryWait

SpecRetry == InitRetry /\ [][RetryNext]_vars

(* ================== diffTasks and the flattening helpers ============== *)

\* the largest id of a top-level task, and of a subtask under its parent
MaxTaskId == 2

\* the value undefined of a field
Undef == "undefined"
\* x || ""
OrEmpty(v) == IF v = Undef THEN "" ELSE v

\* a dependency as stored in tasks.json: a number, a string of digits, or a
\* compound string "p.d"; val holds the numbers written in it
Dep(kind, val) == [kind |-> kind, val |-> val]
\* typeof dep === "string" && dep.includes(".")
IsCompound(dep) == dep.kind = "compound"
\* typeof dep === "number" || (typeof dep === "string" && /^\d+$/.test(dep))
IsBare(dep) == dep.kind = "number" \/ dep.kind = "digits"

\* a task or a subtask of tasks.json; a subtask has no subtasks property
\* (an absent list is <<>>); id 0 is an id that is null or undefined
TaskRec(id, title, status, priority, deps, subs) ==
    [id |-> id, title |-> title, description |-> Undef, details |-> "",
     testStrategy |-> "", status |-> status, priority |-> priority,
     dependencies |-> deps, subtasks |-> subs, isSubtask |-> FALSE, parentId |-> 0]

\* the id of a flattened entity: <<t.id>> for a task, <<t.id, st.id>> for the
\* string `${t.id}.${st.id}` of a subtask
TopId(t) == <<t.id>>
SubId(t, st) == <<t.id, st.id>>

\* t.subtasks.filter((st) => st.id !== undefined && st.id !== null)
EverySubtask(t) == t.subtasks
ValidSubtasks(t) == SelectSeq(t.subtasks, LAMBDA st : st.id # 0)

\* st.dependencies.map((dep) => ...) of a subtask under parent t
KeepDep(t, subtaskIds, dep) == dep
RewriteDep(t, subtaskIds, dep) ==
    IF IsCompound(dep) THEN dep
    ELSE IF IsBare(dep) /\ dep.val[1] \in subtaskIds
         THEN Dep("compound", <<t.id, dep.val[1]>>)
         ELSE dep

\* const subtaskPriority = st.priority !== undefined ? st.priority : t.priority
SubtaskPriority(t, st) == IF st.priority # Undef THEN st.priority ELSE t.priority

\* {...st, id: subId, dependencies: newDeps, _parentId, _isSubtask: true, priority}
FlatSubtask(t, st) ==
    LET valid == ValidSubtasks(t)
        subtaskIds == {valid[k].id : k \in 1..Len(valid)}
    IN  [st EXCEPT !.id = SubId(t, st),
                   !.dependencies = [k \in 1..Len(st.dependencies) |->
                                        RewriteDep(t, subtaskIds, st.dependencies[k])],
                   !.parentId = t.id,
                   !.isSubtask = TRUE,
                   !.priority = SubtaskPriority(t, st)]

\* { ...t, _isSubtask: false, subtasks: flattenedSubtaskIds }
FlatTask(t) ==
    LET valid == ValidSubtasks(t)
    IN  [t EXCEPT !.id = TopId(t),
                  !.subtasks = [k \in 1..Len(valid) |-> SubId(t, valid[k])]]

\* the entities one task contributes, in order: its valid subtasks, then itself
FlatOfTask(t) ==
    LET valid == ValidSubtasks(t)
    IN  [k \in 1..Len(valid) |-> FlatSubtask(t, valid[k])] \o <<FlatTask(t)>>

\* flattenTasksWithTag(tasks, tag): array of {id, task, tag}
RECURSIVE flattenTasksWithTag(_, _)
flattenTasksWithTag(tasks, tag) ==
    IF tasks = <<>> THEN <<>>
    ELSE LET f == FlatOfTask(Head(tasks))
         IN  [k \in 1..Len(f) |-> [id |-> f[k].id, task |-> f[k], tag |-> tag]]
                 \o flattenTasksWithTag(Tail(tasks), tag)

\* Map.prototype.set on the list of entries: a key already present keeps its
\* position and takes the new value
MapSet(map, id, v) ==
    IF \E k \in 1..Len(map) : map[k].id = id
    THEN [k \in 1..Len(map) |-> IF map[k].id = id THEN [id |-> id, task |-> v] ELSE map[k]]
    ELSE Append(map, [id |-> id, task |-> v])
MapHas(map, id) == \E k \in 1..Len(map) : map[k].id = id
MapGet(map, id) == map[CHOOSE k \in 1..Len(map) : map[k].id = id].task

RECURSIVE MapSetAll(_, _)
MapSetAll(map, ents) ==
    IF ents = <<>> THEN map
    ELSE MapSetAll(MapSet(map, Head(ents).id, Head(ents)), Tail(ents))

\* flattenTasksMap(tasks): Map(id, task)
RECURSIVE FlattenInto(_, _)
FlattenInto(map, tasks) ==
    IF tasks = <<>> THEN map
    ELSE FlattenInto(MapSetAll(map, FlatOfTask(Head(tasks))), Tail(tasks))
flattenTasksMap(tasks) == FlattenInto(<<>>, tasks)

\* isTaskEqual(a, b): the six primitive fields with !==, then the
\* dependencies and the subtasks arrays element by element
NeverEqual(a, b) == FALSE
isTaskEqual(a, b) ==
    /\ a.title = b.title
    /\ a.description = b.description
    /\ a.details = b.details
    /\ a.testStrategy = b.testStrategy
    /\ a.priority = b.priority
    /\ a.status = b.status
    /\ Len(a.dependencies) = Len(b.dependencies)
    /\ \A i \in 1..Len(a.dependencies) : a.dependencies[i] = b.dependencies[i]
    /\ Len(a.subtasks) = Len(b.subtasks)
    /\ \A i \in 1..Len(a.subtasks) : a.subtasks[i] = b.subtasks[i]

\* a snapshot is the list of its entries [tag, tasks] in key order
TagsOf(snap) == [k \in 1..Len(snap) |-> snap[k].tag]
HasTag(snap, tag) == \E k \in 1..Len(snap) : snap[k].tag = tag
\* obj[tag]?.tasks || []
TasksOf(snap, tag) ==
    IF HasTag(snap, tag) THEN snap[CHOOSE k \in 1..Len(snap) : snap[k].tag = tag].tasks
    ELSE <<>>

\* Array.from(new Set([...prevTags, ...curTags]))
AllTags(prev, cur) ==
    TagsOf(prev) \o SelectSeq(TagsOf(cur), LAMBDA tag : ~HasTag(prev, tag))

\* the placeholder of an absent prev / cur property of a change record
NoTask == TaskRec(<<>>, Undef, Undef, Undef, <<>>, <<>>)

\* a change record
Change(type, id, curId, prev, cur, prevTag, tag) ==
    [type |-> type, id |-> id, cur_id |-> curId, prev |-> prev, cur |-> cur,
     prev_tag |-> prevTag, tag |-> tag]

\* the records one tag contributes to changes
TagChanges(prev, cur, tag) ==
    IF HasTag(prev, tag) /\ ~HasTag(cur, tag)
    THEN LET f == flattenTasksWithTag(TasksOf(prev, tag), tag)
         IN  [k \in 1..Len(f) |-> Change("deleted", f[k].id, <<>>, f[k].task, NoTask, "", tag)]
    ELSE IF ~HasTag(prev, tag) /\ HasTag(cur, tag)
    THEN LET f == flattenTasksWithTag(TasksOf(cur, tag), tag)
         IN  [k \in 1..Len(f) |-> Change("added", f[k].id, <<>>, NoTask, f[k].task, "", tag)]
    ELSE LET prevMap == flattenTasksMap(TasksOf(prev, tag))
             curMap == flattenTasksMap(TasksOf(cur, tag))
             deletedUpdated ==
                [k \in 1..Len(prevMap) |->
                    LET id == prevMap[k].id IN
                    IF ~MapHas(curMap, id)
                    THEN <<Change("deleted", id, <<>>, prevMap[k].task, NoTask, "", tag)>>
                    ELSE IF ~isTaskEqual(prevMap[k].task, MapGet(curMap, id))
                    THEN <<Change("updated", id, <<>>, prevMap[k].task,
                                  MapGet(curMap, id), "", tag)>>
                    ELSE <<>>]
             added ==
                [k \in 1..Len(curMap) |->
                    IF ~MapHas(prevMap, curMap[k].id)
                    THEN <<Change("added", curMap[k].id, <<>>, NoTask, curMap[k].task, "", tag)>>
                    ELSE <<>>]
             Flat[k \in 0..Len(deletedUpdated)] ==
                IF k = 0 THEN <<>> ELSE Flat[k - 1] \o deletedUpdated[k]
             FlatAdded[k \in 0..Len(added)] ==
                IF k = 0 THEN <<>> ELSE FlatAdded[k - 1] \o added[k]
         IN  Flat[Len(deletedUpdated)] \o FlatAdded[Len(added)]

\* for (const tag of allTags) { ... }
RECURSIVE ChangesOfTags(_, _, _)
ChangesOfTags(prev, cur, tags) ==
    IF tags = <<>> THEN <<>>
    ELSE TagChanges(prev, cur, Head(tags)) \o ChangesOfTags(prev, cur, Tail(tags))

\* moved criteria: title, description, details, testStrategy, status all
\* equal, each read with || ""
SameMoveFields(del, add) ==
    /\ OrEmpty(del.prev.title) = OrEmpty(add.cur.title)
    /\ OrEmpty(del.prev.description) = OrEmpty(add.cur.description)
    /\ OrEmpty(del.prev.details) = OrEmpty(add.cur.details)
    /\ OrEmpty(del.prev.testStrategy) = OrEmpty(add.cur.testStrategy)
    /\ OrEmpty(del.prev.status) = OrEmpty(add.cur.status)

\* for (const add of added) { ... if (same) { ...; break } }: the position in
\* added of the first record with the same fields, 0 when there is none; the
\* loop visits every added record, matched already or not
NoMatch(del, added) == 0
FirstMatch(del, added) ==
    IF \E k \in 1..Len(added) : SameMoveFields(del, added[k])
    THEN CHOOSE k \in 1..Len(added) :
            /\ SameMoveFields(del, added[k])
            /\ \A j \in 1..(k - 1) : ~SameMoveFields(del, added[j])
    ELSE 0

\* del._matched = true: the deleted records the moved detection marked, with
\* match[d] the added record matched to deleted record d (0: none)
NoneMatched(match) == {}
Matched(match) == {d \in 1..Len(match) : match[d] # 0}

\* diffTasks(previous, current)
diffTasks(prev, cur) ==
    LET changes == ChangesOfTags(prev, cur, AllTags(prev, cur))
        added == SelectSeq(changes, LAMBDA c : c.type = "added")
        deleted == SelectSeq(changes, LAMBDA c : c.type = "deleted")
        match == [d \in 1..Len(deleted) |-> FirstMatch(deleted[d], added)]
        movedOf == [d \in 1..Len(deleted) |->
                       IF match[d] = 0 THEN <<>>
                       ELSE <<Change("moved", deleted[d].id, added[match[d]].id,
                                     deleted[d].prev, added[match[d]].cur,
                                     deleted[d].tag, added[match[d]].tag)>>]
        Moved[d \in 0..Len(deleted)] == IF d = 0 THEN <<>> ELSE Moved[d - 1] \o movedOf[d]
        Unmatched(list, marked) ==
            LET Keep[k \in 0..Len(list)] ==
                    IF k = 0 THEN <<>>
                    ELSE IF k \in marked THEN Keep[k - 1] ELSE Append(Keep[k - 1], list[k])
            IN  Keep[Len(list)]
    IN  SelectSeq(changes, LAMBDA c : c.type # "added" /\ c.type # "deleted")
            \o Unmatched(added, {match[d] : d \in 1..Len(deleted)})
            \o Unmatched(deleted, Matched(match))
            \o Moved[Len(deleted)]

(* ----------------- the snapshots and task lists tried ----------------- *)

\* the increasing list of the numbers of a set
RECURSIVE Ascending(_)
Ascending(I) ==
    IF I = {} THEN <<>>
    ELSE LET m == CHOOSE x \in I : \A y \in I : x <= y
         IN  <<m>> \o Ascending(I \ {m})

\* the task lists with distinct ids whose tasks are drawn from choice[id]
ListsOver(ids, choice(_)) ==
    UNION {{[k \in 1..Cardinality(I) |-> f[Ascending(I)[k]]] :
                f \in {g \in [I -> UNION {choice(i) : i \in I}] :
                          \A i \in I : g[i] \in choice(i)}} :
           I \in SUBSET ids}

\* tasks without subtasks that differ in title only
PlainTasks(id) == {TaskRec(id, title, "pending", "high", <<>>, <<>>) : title \in {"a", "b"}}
\* the same tasks, all with the first title
SameTitleTasks(id) == {TaskRec(id, "a", "pending", "high", <<>>, <<>>)}
\* what a tag holds in a plain snapshot: nothing (the tag is absent), or a
\* task list
PlainEntries(choice(_)) ==
    {[present |-> FALSE, tasks |-> <<>>]}
        \cup {[present |-> TRUE, tasks |-> l] : l \in ListsOver(1..MaxTaskId, choice)}
Snapshot(x, y) ==
    (IF x.present THEN <<[tag |-> "x", tasks |-> x.tasks]>> ELSE <<>>)
        \o (IF y.present THEN <<[tag |-> "y", tasks |-> y.tasks]>> ELSE <<>>)
\* tag x holds tasks of either title, tag y tasks of the first title
PlainSnapshots ==
    {Snapshot(x, y) : x \in PlainEntries(PlainTasks), y \in PlainEntries(SameTitleTasks)}

\* subtasks: with or without a priority of their own
Subtask(id, priority, deps) == TaskRec(id, "s", "pending", priority, deps, <<>>)
RichSubtasks ==
    {<<>>, <<Subtask(1, Undef, <<>>)>>,
     <<Subtask(1, "low", <<>>), Subtask(2, "low", <<Dep("number", <<1>>)>>)>>}
RichTasks(id) ==
    {TaskRec(id, "a", "pending", priority, <<>>, subs) :
        priority \in {"high", "low"}, subs \in RichSubtasks}
RichSnapshots == {<<[tag |-> "x", tasks |-> l]>> : l \in ListsOver(1..MaxTaskId, RichTasks)}

\* the fields an edit may change, with the new value
Edits ==
    {<<"title", "b">>, <<"description", "d">>, <<"details", "d">>,
     <<"testStrategy", "t">>, <<"status", "done">>, <<"priority", "medium">>,
     <<"dependencies", <<Dep("number", <<1>>)>>>>}

\* the snapshot with field ed[1] of the k-th task of its first tag set to ed[2]
Edited(snap, k, ed) ==
    [snap EXCEPT ![1].tasks[k] =
        CASE ed[1] = "title" -> [@ EXCEPT !.title = ed[2]]
          [] ed[1] = "description" -> [@ EXCEPT !.description = ed[2]]
          [] ed[1] = "details" -> [@ EXCEPT !.details = ed[2]]
          [] ed[1] = "testStrategy" -> [@ EXCEPT !.testStrategy = ed[2]]
          [] ed[1] = "status" -> [@ EXCEPT !.status = ed[2]]
          [] ed[1] = "priority" -> [@ EXCEPT !.priority = ed[2]]
          [] OTHER -> [@ EXCEPT !.dependencies = ed[2]]]

\* the snapshot with the last subtask of the k-th task of its first tag removed
WithoutLastSubtask(snap, k) ==
    [snap EXCEPT ![1].tasks[k].subtasks = SubSeq(@, 1, Len(@) - 1)]

\* one task whose subtasks may have an id that is null or undefined (id 0)
SubtaskIdLists == {<<>>, <<1>>, <<0>>, <<0, 1>>, <<1, 0>>, <<0, 0>>}
HasSubtaskWithoutId(t) == \E k \in 1..Len(t.subtasks) : t.subtasks[k].id = 0
TasksWithoutSubtaskId ==
    {TaskRec(p, title, "pending", "high", <<>>,
             [k \in 1..Len(ids) |-> Subtask(ids[k], Undef, <<>>)]) :
        p \in 1..MaxTaskId, title \in {"a", "b"}, ids \in SubtaskIdLists}
\* a snapshot with tag x absent, or with one such task under tag x
SnapshotsWithoutSubtaskId ==
    {<<>>} \cup {<<[tag |-> "x", tasks |-> <<t>>]>> : t \in TasksWithoutSubtaskId}

\* the dependencies a subtask may list
DepValues ==
    {Dep("number", <<1>>), Dep("number", <<3>>), Dep("digits", <<1>>),
     Dep("digits", <<3>>), Dep("compound", <<1, 1>>), Dep("compound", <<2, 3>>)}
DepLists == {<<>>} \cup {<<d>> : d \in DepValues} \cup {<<d, e>> : d \in DepValues, e \in DepValues}

\* one parent whose last subtask lists dependencies; the subtask ids are any
\* non-empty set of 1..MaxTaskId + 1
FlattenInputs ==
    {TaskRec(p, "a", "pending", "high", <<>>,
            [k \in 1..Cardinality(I) |->
                Subtask(Ascending(I)[k], Undef,
                        IF k = Cardinality(I) THEN deps ELSE <<>>)]) :
        p \in 1..MaxTaskId, I \in (SUBSET (1..(MaxTaskId + 1))) \ {{}}, deps \in DepLists}

(* ------------------------------ the calls ------------------------------ *)

\* const changes = diffTasks(previous, current)
Diff ==
    /\ unit = "diffTasks"
    /\ diffPc = "ready"
    /\ finalChanges' = diffTasks(previous, current)
    /\ diffPc' = "done"
    /\ UNCHANGED <<previous, current, flatArr, flatMap>>
    /\ UNCHANGED <<unit, log, calls, txVars, compVars, loopVars, bulkVars, fileVars, resetVars,
                   flightVars, retryVars, mapVars, laterVars>>

\* flattenTasksWithTag(tasks, tag) and flattenTasksMap(tasks) on the tasks of
\* the first tag of current
Flatten ==
    /\ unit \in {"flattenTasks", "flattenTasksWithoutId"}
    /\ diffPc = "ready"
    /\ flatArr' = flattenTasksWithTag(current[1].tasks, current[1].tag)
    /\ flatMap' = flattenTasksMap(current[1].tasks)
    /\ diffPc' = "done"
    /\ UNCHANGED <<previous, current, finalChanges>>
    /\ UNCHANGED <<unit, log, calls, txVars, compVars, loopVars, bulkVars, fileVars, resetVars,
                   flightVars, retryVars, mapVars, laterVars>>

InitDiff ==
    /\ log = <<>>
    /\ calls = 0
    /\ TxIdle /\ CompIdle /\ LoopIdle /\ BulkIdle /\ FileIdle /\ ResetIdle
    /\ FlightIdle /\ RetryIdle /\ MapIdle /\ LaterIdle
    /\ diffPc = "ready"
    /\ finalChanges = <<>>
    /\ flatArr = <<>>
    /\ flatMap = <<>>
    /\ \/ /\ unit = "diffTasks"
          /\ previous \in PlainSnapshots
          /\ current \in PlainSnapshots
       \/ /\ unit = "diffTasks"
          /\ previous \in RichSnapshots
          /\ \/ current = previous
             \/ \E k \in 1..Len(previous[1].tasks), ed \in Edits :
                   current = Edited(previous, k, ed)
             \/ \E k \in 1..Len(previous[1].tasks) :
                   /\ previous[1].tasks[k].subtasks # <<>>
                   /\ current = WithoutLastSubtask(previous, k)
       \/ /\ unit = "flattenTasks"
          /\ previous = <<>>
          /\ \E t \in FlattenInputs : current = <<[tag |-> "x", tasks |-> <<t>>]>>
       \/ /\ unit = "flattenTasksWithoutId"
          /\ previous = <<>>
          /\ \E t \in TasksWithoutSubtaskId :
                /\ HasSubtaskWithoutId(t)
                /\ current = <<[tag |-> "x", tasks |-> <<t>>]>>
       \/ /\ unit = "diffTasks"
          /\ previous \in SnapshotsWithoutSubtaskId
          /\ current \in SnapshotsWithoutSubtaskId
          /\ \E snap \in {previous, current} :
                snap # <<>> /\ HasSubtaskWithoutId(snap[1].tasks[1])

DiffNext == Diff \/ Flatten

SpecDiff == InitDiff /\ [][DiffNext]_vars

(* ============================ the identity map ======================== *)

\* calls made on one mapping, and the largest local id
MaxMapCalls == 2
MaxMapId == 2

\* the reference stored under a tag of a mapping object (0: no property)
RefOf(mapping, tag) ==
    IF \E e \in mapping : e[1] = tag THEN (CHOOSE e \in mapping : e[1] = tag)[2] ELSE 0

\* what a mapping object holds, through its references: the tags it has and
\* the entries <<tag, id, notionId>> of their tables
View(mapping, h) ==
    [tags |-> {e[1] : e \in mapping},
     entries |-> UNION {{<<e[1], c[1], c[2]>> : c \in h[e[2]]} : e \in mapping}]

\* getNotionPageId(mapping, tag, id): mapping?.[tag]?.[id]
getNotionPageId(mapping, h, tag, id) ==
    IF RefOf(mapping, tag) = 0 THEN Undef
    ELSE IF \E c \in h[RefOf(mapping, tag)] : c[1] = id
         THEN (CHOOSE c \in h[RefOf(mapping, tag)] : c[1] = id)[2]
         ELSE Undef

\* table[id] = notionId
TableKeep(table, id, notionId) == table
TablePut(table, id, notionId) == {c \in table : c[1] # id} \cup {<<id, notionId>>}
\* delete table[id]
TableDelete(table, id) == {c \in table : c[1] # id}

\* const newMapping = { ...mapping }: the properties are copied, the tables
\* they refer to are not
ShallowCopy(mapping) == mapping

\* setNotionPageId(mapping, tag, id, notionId)
SetNotionPageId(tag, id, notionId) ==
    /\ unit = "identity map"
    /\ Len(mapCalls) < MaxMapCalls
    /\ LET copy == ShallowCopy(mapNew)
           fresh == Len(heap) + 1
           newMapping == IF RefOf(copy, tag) = 0 THEN copy \cup {<<tag, fresh>>} ELSE copy
           h == IF RefOf(copy, tag) = 0 THEN Append(heap, {}) ELSE heap
           ref == RefOf(newMapping, tag)
       IN  /\ heap' = [h EXCEPT ![ref] = TablePut(@, id, notionId)]
           /\ mapNew' = newMapping
    /\ mapArg' = mapNew
    /\ mapBefore' = View(mapNew, heap)
    /\ mapCalls' = Append(mapCalls, [op |-> "set", tag |-> tag, id |-> id, notionId |-> notionId])
    /\ UNCHANGED <<unit, log, calls, txVars, compVars, loopVars, bulkVars, fileVars, resetVars,
                   flightVars, retryVars, diffVars, laterVars>>

\* removeNotionPageId(mapping, tag, id)
RemoveNotionPageId(tag, id) ==
    /\ unit = "identity map"
    /\ Len(mapCalls) < MaxMapCalls
    /\ LET copy == ShallowCopy(mapNew)
           ref == RefOf(copy, tag)
       IN  IF ref # 0
           THEN /\ heap' = [heap EXCEPT ![ref] = TableDelete(@, id)]
                /\ mapNew' = IF TableDelete(heap[ref], id) = {}
                             THEN copy \ {<<tag, ref>>} ELSE copy
           ELSE /\ heap' = heap
                /\ mapNew' = copy
    /\ mapArg' = mapNew
    /\ mapBefore' = View(mapNew, heap)
    /\ mapCalls' = Append(mapCalls, [op |-> "remove", tag |-> tag, id |-> id, notionId |-> Undef])
    /\ UNCHANGED <<unit, log, calls, txVars, compVars, loopVars, bulkVars, fileVars, resetVars,
                   flightVars, retryVars, diffVars, laterVars>>

\* the tables a tag may hold when the mapping is loaded
InitialTables == {{}, {<<1, "p1">>}, {<<1, "p1">>, <<2, "p2">>}}

InitMap ==
    /\ unit = "identity map"
    /\ log = <<>>
    /\ calls = 0
    /\ TxIdle /\ CompIdle /\ LoopIdle /\ BulkIdle /\ FileIdle /\ ResetIdle
    /\ FlightIdle /\ RetryIdle /\ DiffIdle /\ LaterIdle
    /\ \E tx \in InitialTables, ty \in InitialTables, tags \in SUBSET {"x", "y"} :
          /\ heap = <<tx, ty>>
          /\ mapNew = {<<"x", 1>> : t \in tags \cap {"x"}} \cup {<<"y", 2>> : t \in tags \cap {"y"}}
    /\ mapArg = {}
    /\ mapBefore = [tags |-> {}, entries |-> {}]
    /\ mapCalls = <<>>

MapNext ==
    \/ \E tag \in {"x", "y"}, id \in 1..MaxMapId, notionId \in {"p1", "p9"} :
          SetNotionPageId(tag, id, notionId)
    \/ \E tag \in {"x", "y"}, id \in 1..MaxMapId : RemoveNotionPageId(tag, id)

SpecMap == InitMap /\ [][MapNext]_vars

(* =============== repairNotionDB, repairNotionDuplicates ================ *)

\* bound: the pages of the remote database when the run starts
MaxRemote == 3

\* the ids a local task can have, in the order of the tasks file
RepIdSeq == <<1, 2>>
RepIds == Range(RepIdSeq)
\* getCurrentTag(), and a tag that is not the current one
RepairTag == "A"
OtherTag == "B"

\* what buildNotionProperties wrote on a page: its taskid (0: the page has
\* no taskid property) and its tag
PageKinds ==
    {[taskid |-> 1, tag |-> RepairTag], [taskid |-> 2, tag |-> RepairTag],
     [taskid |-> 2, tag |-> OtherTag], [taskid |-> 0, tag |-> RepairTag]}

\* created_time of page i of n: rising or falling with the fetch order, or equal
CreatedModes == {"rising", "falling", "equal"}
CreatedTime(mode, i, n) ==
    IF mode = "rising" THEN i ELSE IF mode = "falling" THEN n + 1 - i ELSE 1

\* the page created for task id of tag
RepCreated(tag, id) ==
    CreatedPage(IF tag = RepairTag THEN id ELSE id + Len(RepIdSeq))

TaskIdOf(p) ==
    IF p[1] = "existing" THEN remote[p[2]].taskid
    ELSE IF p[2] > Len(RepIdSeq) THEN p[2] - Len(RepIdSeq) ELSE p[2]
TagOf(p) ==
    IF p[1] = "existing" THEN remote[p[2]].tag
    ELSE IF p[2] > Len(RepIdSeq) THEN OtherTag ELSE RepairTag
CreatedAt(p) == remote[p[2]].created

\* every page the database ever holds during a run, in the order a query lists them
AllPages ==
    [i \in 1..Len(remote) |-> ExistingPage(i)]
    \o [k \in 1..(2 * Len(RepIdSeq)) |-> CreatedPage(k)]

\* the pages that are not archived after the requests reqs
LiveAfter(reqs) == LivePages({ExistingPage(i) : i \in 1..Len(remote)}, reqs)

\* fetchAllNotionPages(): databases.query lists the pages that are not archived
fetchAllNotionPages(reqs) == SelectSeq(AllPages, LAMBDA p : p \in LiveAfter(reqs))

\* pagesByTaskId.get(taskId) after the grouping loop, pagesWithoutTaskId, notionTaskIds
GroupByTaskId(pgs) == [m \in RepIds |-> SelectSeq(pgs, LAMBDA p : TaskIdOf(p) = m)]
WithoutTaskId(pgs) == SelectSeq(pgs, LAMBDA p : TaskIdOf(p) = 0)
TaskIdsOf(pgs) == {TaskIdOf(pgs[k]) : k \in 1..Len(pgs)} \ {0}

\* the keys of a Map or a Set in insertion order: the taskids of pgs by first appearance
RECURSIVE FirstSeen(_, _)
FirstSeen(pgs, seen) ==
    IF pgs = <<>> THEN <<>>
    ELSE LET m == TaskIdOf(Head(pgs)) IN
         IF m = 0 \/ m \in seen THEN FirstSeen(Tail(pgs), seen)
         ELSE <<m>> \o FirstSeen(Tail(pgs), seen \cup {m})

\* pages.sort((a, b) => new Date(b.created_time) - new Date(a.created_time)):
\* most recent first, pages of equal time in their former order
KeepFetchOrder(s) == s
RECURSIVE InsertByCreated(_, _)
InsertByCreated(p, s) ==
    IF s = <<>> THEN <<p>>
    ELSE IF CreatedAt(Head(s)) >= CreatedAt(p)
         THEN <<Head(s)>> \o InsertByCreated(p, Tail(s))
         ELSE <<p>> \o s
RECURSIVE SortAcc(_, _)
SortAcc(s, acc) ==
    IF s = <<>> THEN acc ELSE SortAcc(Tail(s), InsertByCreated(Head(s), acc))
SortByCreated(s) == SortAcc(s, <<>>)

\* duplicates: the groups of more than one page
IsDuplicated(groups, m) == Len(groups[m]) > 1
\* sortedPages.slice(1) of the group of m
PagesToRemove(groups, m) == Tail(SortByCreated(groups[m]))

\* the archive requests of the duplicate loop, over the groups in Map order;
\* F holds the pages whose request fails after its retries
RECURSIVE DedupRequests(_, _, _)
DedupRequests(order, groups, F) ==
    IF order = <<>> THEN <<>>
    ELSE (IF IsDuplicated(groups, Head(order))
          THEN IssueBatch("archive", PagesToRemove(groups, Head(order)), F)
          ELSE <<>>)
         \o DedupRequests(Tail(order), groups, F)

\* every page cleanupNotionMapping takes for removed: sortedPages.slice(1) of each group
RemovedDuplicates(groups) ==
    UNION {Range(PagesToRemove(groups, m)) : m \in {x \in RepIds : IsDuplicated(groups, x)}}

\* setNotionPageId on the mapping just loaded, then saveNotionSyncMapping
SetEntry(mp, tag, id, page) ==
    {e \in mp : ~(e[1] = tag /\ e[2] = id)} \cup {<<tag, id, page>>}

\* the addTaskToNotion loop over the tasks ids (of tag), F the ids whose create fails
RECURSIVE AddTasks(_, _, _, _)
AddTasks(ids, tag, F, acc) ==
    IF ids = <<>> THEN acc
    ELSE LET id == Head(ids)
             page == RepCreated(tag, id) IN
         AddTasks(Tail(ids), tag, F,
             IF id \in F
             THEN [acc EXCEPT !.requests = Append(@, Request("create", page, FALSE))]
             ELSE [requests |-> Append(acc.requests, Request("create", page, TRUE)),
                   mapping |-> SetEntry(acc.mapping, tag, id, page),
                   writes |-> acc.writes + 1,
                   added |-> acc.added + 1])

SeqOfIds(S) == SelectSeq(RepIdSeq, LAMBDA i : i \in S)
Count(s, ok) == Len(SelectSeq(s, LAMBDA r : r.ok = ok))

\* Phase 1 of repairNotionDB, steps 1 and 2 of repairNotionDuplicates: the
\* fetch and the grouping; a fetch that fails is caught by the outer catch
RepairAudit(ok) ==
    /\ repairPc = "audit"
    /\ IF ~ok
       THEN /\ repairPc' = "returned"
            /\ report' = [success |-> FALSE, error |-> "fetch"]
            /\ UNCHANGED <<notionPages, rep>>
       ELSE LET pgs == fetchAllNotionPages(repRequests) IN
            /\ notionPages' = pgs
            /\ rep' = [pagesByTaskId |-> GroupByTaskId(pgs),
                       duplicates |-> GroupByTaskId(pgs),
                       pagesWithoutTaskId |-> WithoutTaskId(pgs),
                       notionTaskIds |-> TaskIdsOf(pgs),
                       order |-> FirstSeen(pgs, {}),
                       mapping |-> repMapping,
                       missingTasks |-> <<>>,
                       duplicatesRemoved |-> 0, tasksAdded |-> 0,
                       totalExtraTasks |-> 0, extraTasksRemoved |-> 0,
                       invalidMappingsRemoved |-> 0]
            /\ repairPc' = "dedup"
            /\ UNCHANGED report
    /\ UNCHANGED <<repOp, repOptions, remote, repLocal, repMapping, repWrites, repRequests>>

\* if (!dryRun): the guard of every request that changes the database and of
\* every write of the mapping file
MutatesAlways(options) == TRUE
Mutates(options) == ~options.dryRun

\* Phase 2 of repairNotionDB, steps 3 and 4 of repairNotionDuplicates
RepairDedup(F) ==
    /\ repairPc = "dedup"
    /\ LET groups == rep.pagesByTaskId
           dups == {m \in RepIds : IsDuplicated(groups, m)}
           reqs == IF ~Mutates(repOptions) THEN <<>> ELSE DedupRequests(rep.order, groups, F)
           removed == Count(reqs, TRUE)
           sorted == [m \in RepIds |-> IF m \in dups THEN SortByCreated(groups[m])
                                       ELSE groups[m]]
       IN  /\ F \subseteq RemovedDuplicates(groups)
           /\ ~Mutates(repOptions) => F = {}
           /\ repRequests' = repRequests \o reqs
           /\ IF repOp = "repairNotionDuplicates" /\ dups = {}
              THEN \* if (duplicates.size === 0) return
                   /\ repairPc' = "returned"
                   /\ report' = [success |-> TRUE, duplicatesRemoved |-> 0]
                   /\ UNCHANGED rep
              ELSE /\ rep' = [rep EXCEPT
                        !.duplicates = sorted,
                        !.duplicatesRemoved = removed,
                        !.pagesByTaskId =
                            IF repOp = "repairNotionDB" /\ Mutates(repOptions) /\ removed > 0
                            THEN [m \in RepIds |-> IF m \in dups THEN <<sorted[m][1]>>
                                                   ELSE groups[m]]
                            ELSE sorted]
                   /\ repairPc' = IF repOp = "repairNotionDB" THEN "missing" ELSE "cleanup"
                   /\ UNCHANGED report
    /\ UNCHANGED <<repOp, repOptions, remote, repLocal, repMapping, repWrites, notionPages>>

\* Phase 3 of repairNotionDB: the local tasks that no page names are created
RepairSyncMissing(F) ==
    /\ repairPc = "missing"
    /\ LET missing == SeqOfIds(repLocal.cur \ rep.notionTaskIds)
           done == AddTasks(missing, RepairTag, F,
                       [requests |-> <<>>, mapping |-> repMapping, writes |-> 0, added |-> 0])
       IN  /\ F \subseteq Range(missing)
           /\ ~Mutates(repOptions) => F = {}
           /\ IF ~Mutates(repOptions)
              THEN UNCHANGED <<repRequests, repMapping, repWrites>>
              ELSE /\ repRequests' = repRequests \o done.requests
                   /\ repMapping' = done.mapping
                   /\ repWrites' = repWrites + done.writes
           /\ rep' = [rep EXCEPT !.missingTasks = missing,
                                 !.tasksAdded = IF ~Mutates(repOptions) THEN 0 ELSE done.added]
    /\ repairPc' = "extra"
    /\ UNCHANGED <<repOp, repOptions, remote, repLocal, notionPages, report>>

\* pagesToRemove of Phase 4: the pages of the extra taskids, then the pages without taskid
RECURSIVE PagesOfTaskIds(_, _)
PagesOfTaskIds(order, groups) ==
    IF order = <<>> THEN <<>>
    ELSE groups[Head(order)] \o PagesOfTaskIds(Tail(order), groups)

\* Phase 4 of repairNotionDB: pages whose taskid no local task of the current tag has
RepairCleanExtra(F) ==
    /\ repairPc = "extra"
    /\ LET extraTasks == SelectSeq(rep.order, LAMBDA m : m \in rep.notionTaskIds
                                                        /\ m \notin repLocal.cur)
           totalExtraTasks == Len(extraTasks) + Len(rep.pagesWithoutTaskId)
           pagesToRemove == PagesOfTaskIds(extraTasks, rep.pagesByTaskId)
                            \o rep.pagesWithoutTaskId
           acts == totalExtraTasks > 0 /\ ~repOptions.preserveExtraTasks
                   /\ Mutates(repOptions) /\ Len(pagesToRemove) > 0
           archiveResult == ParallelLoop(pagesToRemove, F, 0, EmptyResults)
       IN  /\ F \subseteq Range(pagesToRemove)
           /\ ~acts => F = {}
           /\ repRequests' = IF acts THEN repRequests \o archiveResult.requests
                             ELSE repRequests
           /\ rep' = [rep EXCEPT
                  !.totalExtraTasks = totalExtraTasks,
                  !.extraTasksRemoved = IF acts THEN archiveResult.succeeded ELSE 0,
                  !.notionTaskIds = IF acts THEN @ \ Range(extraTasks) ELSE @,
                  !.pagesByTaskId = IF acts
                                    THEN [m \in RepIds |-> IF m \in Range(extraTasks)
                                                           THEN <<>> ELSE @[m]]
                                    ELSE @]
    /\ repairPc' = "cleanup"
    /\ UNCHANGED <<repOp, repOptions, remote, repLocal, repMapping, repWrites,
                   notionPages, report>>

\* cleanupNotionMapping(projectRoot, duplicates): the entries that point to a
\* page of sortedPages.slice(1) are deleted; the file is saved if one was
CleanedMapping(mp, groups) == {e \in mp : e[3] \notin RemovedDuplicates(groups)}

\* Phase 5 of repairNotionDB, step 5 of repairNotionDuplicates
RepairCleanup ==
    /\ repairPc = "cleanup"
    /\ LET runs == /\ Mutates(repOptions)
                   /\ IF repOp = "repairNotionDB"
                      THEN rep.duplicatesRemoved > 0 \/ rep.tasksAdded > 0
                           \/ rep.extraTasksRemoved > 0
                      ELSE rep.duplicatesRemoved > 0
           cleaned == CleanedMapping(repMapping, rep.duplicates)
       IN  IF runs /\ cleaned # repMapping
           THEN repMapping' = cleaned /\ repWrites' = repWrites + 1
           ELSE UNCHANGED <<repMapping, repWrites>>
    /\ repairPc' = IF repOp = "repairNotionDB" THEN "reconcile" ELSE "forcesync"
    /\ UNCHANGED <<repOp, repOptions, remote, repLocal, repRequests, notionPages, rep, report>>

\* notionPages.find((p) => p.id === notionId): the list is the one Phase 1
\* fetched, and `archived` is what that fetch returned for the page
FoundValid(pgs, notionId) == notionId \in Range(pgs)
ValidMappings(mp, pgs) == {e \in mp : FoundValid(pgs, e[3])}

\* Phase 6 of repairNotionDB
RepairReconcile ==
    /\ repairPc = "reconcile"
    /\ IF Mutates(repOptions)
       THEN LET kept == ValidMappings(repMapping, notionPages) IN
            /\ rep' = [rep EXCEPT !.invalidMappingsRemoved = Cardinality(repMapping \ kept)]
            /\ IF kept # repMapping
               THEN repMapping' = kept /\ repWrites' = repWrites + 1
               ELSE UNCHANGED <<repMapping, repWrites>>
       ELSE \* the dry run counts over the mapping Phase 1 loaded
            /\ rep' = [rep EXCEPT !.invalidMappingsRemoved =
                           Cardinality(rep.mapping \ ValidMappings(rep.mapping, notionPages))]
            /\ UNCHANGED <<repMapping, repWrites>>
    /\ repairPc' = "report"
    /\ UNCHANGED <<repOp, repOptions, remote, repLocal, repRequests, notionPages, report>>

\* forceFullNotionSync(projectRoot): the mapping file is rebuilt from the
\* pages for the tasks of the current tag (for a taskid the last page
\* listed), then syncTasksWithNotion(mapped tasks, all tasks) adds every task
\* it finds added: the unmapped tasks of the current tag, the tasks of every
\* other tag.  The first create that fails is thrown.
LastPageOf(pgs, m) ==
    LET g == SelectSeq(pgs, LAMBDA p : TaskIdOf(p) = m) IN g[Len(g)]
RebuiltMapping(pgs, ids) ==
    {<<RepairTag, m, LastPageOf(pgs, m)>> : m \in ids \cap TaskIdsOf(pgs)}

RepairForceSync(ok, k) ==
    /\ repairPc = "forcesync"
    /\ IF ~Mutates(repOptions) \/ ~repOptions.forceSync \/ ~(rep.duplicatesRemoved > 0)
       THEN /\ ok /\ k = 0
            /\ repairPc' = "report"
            /\ UNCHANGED <<repMapping, repWrites, repRequests, report>>
       ELSE IF ~ok
       THEN /\ k = 0
            /\ repairPc' = "returned"
            /\ report' = [success |-> FALSE, error |-> "fetch"]
            /\ UNCHANGED <<repMapping, repWrites, repRequests>>
       ELSE LET pgs == fetchAllNotionPages(repRequests)
                newMapping == RebuiltMapping(pgs, repLocal.cur)
                mapped == {e[2] : e \in newMapping}
                addCur == SeqOfIds(repLocal.cur \ mapped)
                addOther == SeqOfIds(repLocal.other)
                total == Len(addCur) + Len(addOther)
                kc == Min(k, Len(addCur))
                afterCur == AddTasks(SubSeq(addCur, 1, kc), RepairTag, {},
                                [requests |-> <<>>, mapping |-> newMapping,
                                 writes |-> 1, added |-> 0])
                afterAll == AddTasks(SubSeq(addOther, 1, k - kc), OtherTag, {}, afterCur)
                failedPage == IF k < Len(addCur) THEN RepCreated(RepairTag, addCur[k + 1])
                              ELSE RepCreated(OtherTag, addOther[k - kc + 1])
            IN  /\ k \in 0..total
                /\ repMapping' = afterAll.mapping
                /\ repWrites' = repWrites + afterAll.writes
                /\ repRequests' = repRequests \o afterAll.requests
                        \o (IF k < total THEN <<Request("create", failedPage, FALSE)>>
                            ELSE <<>>)
                /\ IF k < total
                   THEN /\ repairPc' = "returned"
                        /\ report' = [success |-> FALSE, error |-> "sync"]
                   ELSE /\ repairPc' = "report"
                        /\ UNCHANGED report
    /\ UNCHANGED <<repOp, repOptions, remote, repLocal, notionPages, rep>>

\* catch (e) { return { success: false, error: e.message } }: the requests
\* the database has answered when the outer catch runs stay as they are
Undone(reqs) ==
    reqs \o [k \in 1..Len(reqs) |->
                Request(IF reqs[k].kind = "archive" THEN "unarchive" ELSE "archive",
                        reqs[k].page, reqs[k].ok)]
Caught(reqs) == reqs

\* the final fetch of repairNotionDB and the value returned
RepairReport(ok) ==
    /\ repairPc = "report"
    /\ repairPc' = "returned"
    /\ LET dryRun == repOptions.dryRun IN
       IF repOp = "repairNotionDuplicates"
       THEN /\ ok
            /\ UNCHANGED repRequests
            /\ report' = [success |-> TRUE,
                          duplicatesRemoved |-> IF dryRun THEN 0 ELSE rep.duplicatesRemoved,
                          totalDuplicatesFound |-> Cardinality(RemovedDuplicates(rep.duplicates)),
                          dryRun |-> dryRun]
       ELSE IF ~dryRun /\ ~ok
       THEN /\ report' = [success |-> FALSE, error |-> "fetch"]
            /\ repRequests' = Caught(repRequests)
       ELSE LET finalNotionPages == IF dryRun THEN notionPages
                                    ELSE fetchAllNotionPages(repRequests)
            IN /\ report' =
                [success |-> TRUE,
                 dryRun |-> dryRun,
                 taskmasterTaskCount |-> Cardinality(repLocal.cur),
                 notionPageCount |-> Len(finalNotionPages),
                 duplicatesFound |-> Cardinality({m \in RepIds : IsDuplicated(rep.duplicates, m)}),
                 duplicatesRemoved |-> IF dryRun THEN 0 ELSE rep.duplicatesRemoved,
                 tasksAdded |-> IF dryRun THEN 0 ELSE rep.tasksAdded,
                 extraTasksFound |-> rep.totalExtraTasks,
                 extraTasksRemoved |-> IF dryRun THEN 0 ELSE rep.extraTasksRemoved,
                 invalidMappingsFound |-> rep.invalidMappingsRemoved,
                 invalidMappingsRemoved |-> IF dryRun THEN 0 ELSE rep.invalidMappingsRemoved,
                 pagesWithoutTaskId |-> Len(rep.pagesWithoutTaskId),
                 duplicateDetails |-> PagesOfTaskIds(rep.order,
                     [m \in RepIds |-> IF IsDuplicated(rep.duplicates, m)
                                       THEN Tail(rep.duplicates[m]) ELSE <<>>]),
                 additionDetails |-> IF dryRun THEN rep.missingTasks ELSE <<>>,
                 summary |-> IF dryRun THEN "Would remove" ELSE "Removed",
                 preserveExtraTasks |-> repOptions.preserveExtraTasks]
               /\ UNCHANGED repRequests
    /\ UNCHANGED <<repOp, repOptions, remote, repLocal, repMapping, repWrites,
                   notionPages, rep>>

\* the variables no action of the repair functions touches
outsideRepair ==
    <<unit, log, calls, txVars, compVars, loopVars, bulkVars, fileVars, resetVars,
      flightVars, retryVars, diffVars, mapVars, fnVars, syncVars>>

\* the databases a run can find
Remotes ==
    UNION {{[i \in 1..n |-> [taskid |-> kinds[i].taskid, tag |-> kinds[i].tag,
                             created |-> CreatedTime(mode, i, n)]] :
               kinds \in [1..n -> PageKinds], mode \in CreatedModes} : n \in 0..MaxRemote}

\* the mapping file a run finds: an entry for the first page of each local
\* task, and an entry for a page that is in no database
MappingOf(rem, loc) ==
    {<<t, m, ExistingPage(CHOOSE i \in 1..Len(rem) :
                /\ rem[i].taskid = m /\ rem[i].tag = t
                /\ \A j \in 1..(i - 1) : ~(rem[j].taskid = m /\ rem[j].tag = t))>> :
        <<t, m>> \in {x \in ({RepairTag} \X loc.cur) \cup ({OtherTag} \X loc.other) :
                        \E i \in 1..Len(rem) : rem[i].taskid = x[2] /\ rem[i].tag = x[1]}}
    \cup {<<OtherTag, 1, ExistingPage(0)>>}

InitRepair ==
    /\ unit = "repair"
    /\ log = <<>>
    /\ calls = 0
    /\ TxIdle /\ CompIdle /\ LoopIdle /\ BulkIdle /\ FileIdle /\ ResetIdle
    /\ FlightIdle /\ RetryIdle /\ DiffIdle /\ MapIdle /\ FnIdle /\ SyncIdle
    /\ repOp \in {"repairNotionDB", "repairNotionDuplicates"}
    /\ repOptions \in [dryRun : BOOLEAN, preserveExtraTasks : BOOLEAN, forceSync : BOOLEAN]
    /\ repOp = "repairNotionDB" => repOptions.forceSync
    /\ repOp = "repairNotionDuplicates" => ~repOptions.preserveExtraTasks
    /\ repairPc = "audit"
    /\ remote \in Remotes
    /\ repLocal \in [cur : SUBSET RepIds, other : SUBSET {2}]
    /\ repMapping = MappingOf(remote, repLocal)
    /\ repWrites = 0
    /\ repRequests = <<>>
    /\ notionPages = <<>>
    /\ rep = [pending |-> TRUE]
    /\ report = NoReport

RepairNext ==
    /\ unit = "repair"
    /\ \/ \E ok \in BOOLEAN : RepairAudit(ok)
       \/ \E F \in SUBSET Range(AllPages) : RepairDedup(F)
       \/ \E F \in SUBSET RepIds : RepairSyncMissing(F)
       \/ \E F \in SUBSET Range(AllPages) : RepairCleanExtra(F)
       \/ RepairCleanup
       \/ RepairReconcile
       \/ \E ok \in BOOLEAN, k \in 0..(2 * Len(RepIdSeq)) : RepairForceSync(ok, k)
       \/ \E ok \in BOOLEAN : RepairReport(ok)
    /\ UNCHANGED outsideRepair

SpecRepair == InitRepair /\ [][RepairNext]_vars

(* ==== validateHierarchyIntegrity, checkRelationProperties, loadNotionSyncMapping ==== *)

\* a task of taskMasterData.tasks: its id and the ids of its subtasks
TreeTask(id, subs) == [id |-> id, subtasks |-> subs]
\* null, as the parentId of a record of the hierarchy
NoParent == <<>>

\* allTasks: the entries of the Map in insertion order.  The key of a task is
\* String(task.id), <<id>> here; the key of a subtask is `${task.id}.${subtask.id}`,
\* <<id, subId>> here.  parentId is task.id, isRoot tells a task from a subtask.
RECURSIVE CollectTasks(_)
CollectTasks(tasks) ==
    IF tasks = <<>> THEN <<>>
    ELSE LET t == Head(tasks) IN
         <<[id |-> <<t.id>>, parentId |-> NoParent, isRoot |-> TRUE]>>
         \o [k \in 1..Len(t.subtasks) |->
                [id |-> <<t.id, t.subtasks[k]>>, parentId |-> <<t.id>>, isRoot |-> FALSE]]
         \o CollectTasks(Tail(tasks))

Issue(type, taskId, parent) == [type |-> type, taskId |-> taskId, parent |-> parent]

\* if (!task.isRoot && task.parentId): the test that guards the comparison of parents
ChecksParent(task) == ~task.isRoot /\ task.parentId # NoParent

\* the body of the validation loop for one entry of allTasks
IssuesOf(task, allIds, notionHierarchy) ==
    IF task.id \notin DOMAIN notionHierarchy
    THEN <<Issue("missing_in_notion", task.id, NoParent)>>
    ELSE LET notionInfo == notionHierarchy[task.id] IN
         (IF ChecksParent(task) /\ notionInfo.parentId # task.parentId
          THEN <<Issue("parent_mismatch", task.id, notionInfo.parentId)>> ELSE <<>>)
         \o (IF notionInfo.parentId # NoParent /\ notionInfo.parentId \notin allIds
             THEN <<Issue("orphaned_subtask", task.id, notionInfo.parentId)>> ELSE <<>>)

RECURSIVE ValidateLoop(_, _, _)
ValidateLoop(entries, allIds, notionHierarchy) ==
    IF entries = <<>> THEN <<>>
    ELSE IssuesOf(Head(entries), allIds, notionHierarchy)
         \o ValidateLoop(Tail(entries), allIds, notionHierarchy)

validateHierarchyIntegrity(taskMasterData, notionHierarchy) ==
    LET allTasks == CollectTasks(taskMasterData)
        allIds == {allTasks[k].id : k \in 1..Len(allTasks)}
        issues == ValidateLoop(allTasks, allIds, notionHierarchy)
        count(type) == Len(SelectSeq(issues, LAMBDA i : i.type = type))
    IN  [isValid |-> issues = <<>>,
         stats |-> [totalTasks |-> Len(allTasks),
                    validTasks |-> Len(allTasks) - count("missing_in_notion"),
                    orphanedSubtasks |-> count("orphaned_subtask"),
                    missingRelations |-> count("parent_mismatch"),
                    circularDependencies |-> 0],
         issues |-> issues]

\* the trees and the hierarchies the validation is called with
TreeIds == {1, 2}
SubtaskLists == {<<>>, <<1>>}
Trees ==
    {<<>>}
    \cup {<<TreeTask(i, s)>> : i \in TreeIds, s \in SubtaskLists}
    \cup {<<TreeTask(1, s), TreeTask(2, t)>> : s \in SubtaskLists, t \in SubtaskLists}
HierarchyIds == {<<1>>, <<2>>, <<1, 1>>, <<2, 1>>}
RemoteParents == {NoParent, <<1>>, <<2>>, <<3>>}
Hierarchies ==
    UNION {[D -> [parentId : RemoteParents]] : D \in SUBSET HierarchyIds}

Validate ==
    /\ fnCall = "validateHierarchyIntegrity"
    /\ fnPc = "ready"
    /\ fnOut' = validateHierarchyIntegrity(fnIn.taskMasterData, fnIn.notionHierarchy)
    /\ fnPc' = "done"
    /\ UNCHANGED <<fnCall, fnIn>>

\* a property name is a sequence of pieces; toLowerCase() maps each piece to
\* its lower-case form, includes(keyword) holds when a piece is the keyword
NamePieces == {"Parent", "parent", "Sub", "sub", "Dependenc", "dependenc", "item"}
LowerPiece(piece) ==
    CASE piece = "Parent" -> "parent"
      [] piece = "Sub" -> "sub"
      [] piece = "Dependenc" -> "dependenc"
      [] OTHER -> piece
toLowerCase(name) == [k \in 1..Len(name) |-> LowerPiece(name[k])]
startsWith(nameLower, keyword) == nameLower # <<>> /\ nameLower[1] = keyword
includes(nameLower, keyword) == \E k \in 1..Len(nameLower) : nameLower[k] = keyword

NoName == <<>>
InitialStatus ==
    [hasParentRelation |-> FALSE, hasSubItemRelation |-> FALSE,
     hasDependencyRelation |-> FALSE, parentRelationName |-> NoName,
     subItemRelationName |-> NoName, dependencyRelationName |-> NoName]

\* the body of the loop of checkRelationProperties for one entry of the schema
CheckProperty(status, name, prop) ==
    IF prop.type # "relation" THEN status
    ELSE LET nameLower == toLowerCase(name) IN
         IF includes(nameLower, "parent")
         THEN [status EXCEPT !.hasParentRelation = TRUE, !.parentRelationName = name]
         ELSE IF includes(nameLower, "sub")
         THEN [status EXCEPT !.hasSubItemRelation = TRUE, !.subItemRelationName = name]
         ELSE IF includes(nameLower, "dependenc")
         THEN [status EXCEPT !.hasDependencyRelation = TRUE,
                             !.dependencyRelationName = name]
         ELSE status

\* properties: the entries of database.properties in the order of Object.entries
RECURSIVE CheckLoop(_, _)
CheckLoop(properties, status) ==
    IF properties = <<>> THEN status
    ELSE CheckLoop(Tail(properties),
                   CheckProperty(status, Head(properties).name, Head(properties).prop))
checkRelationProperties(database) == CheckLoop(database, InitialStatus)

\* the schemas: up to two properties of distinct names
PropertyNames == {<<a>> : a \in NamePieces} \cup {<<a, b>> : a \in NamePieces, b \in NamePieces}
PropertyTypes == {"relation", "rich_text"}
SchemaEntries == [name : PropertyNames, prop : [type : PropertyTypes]]
Schemas ==
    {<<>>} \cup {<<x>> : x \in SchemaEntries}
    \cup {p \in {<<x, y>> : x \in SchemaEntries, y \in SchemaEntries} :
               p[1].name # p[2].name}

CheckRelations ==
    /\ fnCall = "checkRelationProperties"
    /\ fnPc = "ready"
    /\ fnOut' = checkRelationProperties(fnIn.database)
    /\ fnPc' = "done"
    /\ UNCHANGED <<fnCall, fnIn>>

\* JSON values: an object is the set of its <<key, value>> entries
JsonObject(entries) == [kind |-> "object", entries |-> entries]
JsonNull == [kind |-> "null", entries |-> {}]
JsonUndefined == [kind |-> "undefined", entries |-> {}]
JsonNumber == [kind |-> "number", entries |-> {}]
Falsy(v) == v.kind \in {"null", "undefined"}
\* what a statement gives: a value, or an exception
Returned(v) == [threw |-> FALSE, value |-> v]
Thrown == [threw |-> TRUE, value |-> JsonUndefined]

\* the file on disk: the parsed form of its text when JSON.parse accepts it,
\* with the top-level fields it has; readable is whether readFileSync succeeds
MappingFile(exists, readable, parses, data) ==
    [exists |-> exists, readable |-> readable, parses |-> parses, data |-> data]
\* data.mapping, data.meta: undefined when data has no such field; a
\* TypeError when data is null
Field(data, name) == IF name \in DOMAIN data.fields THEN data.fields[name] ELSE JsonUndefined

\* data.mapping || {}
OrEmptyObject(v) == IF Falsy(v) THEN JsonObject({}) ELSE v
EmptyLoad == [mapping |-> JsonObject({}), meta |-> JsonObject({})]

\* try { ... } catch (e) { logger.error(...) } return { mapping: {}, meta: {} }
CatchAndDefault(result) ==
    IF result.threw \/ result.value = JsonUndefined THEN Returned(EmptyLoad) ELSE result

\* the body of the try block: undefined when it falls through without return
LoadBody(f) ==
    IF ~f.exists THEN Returned(JsonUndefined)
    ELSE IF ~f.readable \/ ~f.parses THEN Thrown
    ELSE IF f.data.kind = "null" THEN Thrown
    ELSE Returned([mapping |-> OrEmptyObject(Field(f.data, "mapping")),
                   meta |-> OrEmptyObject(Field(f.data, "meta"))])
\* the same without the try block
WithoutCatch(f) == LoadBody(f)
loadNotionSyncMapping(f) == CatchAndDefault(LoadBody(f))

\* the files: what saveNotionSyncMapping wrote, and what an edit can leave
StoredMappings == {JsonObject({}), JsonObject({<<"A", 1, "page1">>}),
                   JsonObject({<<"A", 1, "page1">>, <<"B", 2, "page2">>})}
StoredMetas == {JsonObject({}), JsonObject({<<"lastSync", 1>>})}
ParsedData ==
    {[kind |-> k, fields |-> <<>>] : k \in {"null", "number"}}
    \cup UNION {[kind : {"object"},
                 fields : [D -> StoredMappings \cup StoredMetas \cup {JsonNull}]] :
                D \in SUBSET {"mapping", "meta"}}
MappingFiles ==
    {MappingFile(FALSE, FALSE, FALSE, [kind |-> "null", fields |-> <<>>])}
    \cup {MappingFile(TRUE, r, p, d) : r \in BOOLEAN, p \in BOOLEAN, d \in ParsedData}

Load ==
    /\ fnCall = "loadNotionSyncMapping"
    /\ fnPc = "ready"
    /\ fnOut' = loadNotionSyncMapping(fnIn.file)
    /\ fnPc' = "done"
    /\ UNCHANGED <<fnCall, fnIn>>

\* bound: the tasks handed to updateHierarchicalRelations
MaxRelItems == 12

\* what happens to one task: it has no page id in the mapping ("unmapped"),
\* buildHierarchicalRelations gives no relation ("norelations"), its page is
\* archived, pages.retrieve fails, pages.update fails, or both succeed ("ok")
ItemStates == {"unmapped", "norelations", "archived", "retrieveFails", "updateFails", "ok"}

RelRequest(kind, id, ok) == [kind |-> kind, id |-> id, ok |-> ok]
\* the value the promise of one task resolves to (kind "null" for null), with
\* the requests it sent and whether it pushed to errors
ItemRun(result, success, reqs, pushed) ==
    [result |-> result, success |-> success, requests |-> reqs, pushed |-> pushed]

\* the callback of batch.map for one task
UpdateItem(item) ==
    CASE item.state \in {"unmapped", "norelations"} ->
            ItemRun("null", FALSE, <<>>, FALSE)
      [] item.state = "retrieveFails" ->
            ItemRun("object", FALSE, <<RelRequest("retrieve", item.id, FALSE)>>, TRUE)
      [] item.state = "archived" ->
            ItemRun("object", FALSE, <<RelRequest("retrieve", item.id, TRUE)>>, FALSE)
      [] item.state = "updateFails" ->
            ItemRun("object", FALSE, <<RelRequest("retrieve", item.id, TRUE),
                                       RelRequest("update", item.id, FALSE)>>, TRUE)
      [] OTHER ->
            ItemRun("object", TRUE, <<RelRequest("retrieve", item.id, TRUE),
                                      RelRequest("update", item.id, TRUE)>>, FALSE)

\* results.filter((r) => r && r.success).length, settled the results of a batch
NotNull(settled) == Len(SelectSeq(settled, LAMBDA r : r.result # "null"))
Succeeded(settled) == Len(SelectSeq(settled, LAMBDA r : r.result # "null" /\ r.success))

RECURSIVE RequestsOf(_)
RequestsOf(runs) ==
    IF runs = <<>> THEN <<>> ELSE Head(runs).requests \o RequestsOf(Tail(runs))

\* the loop over the batches of BATCH_SIZE tasks; errors holds the ids pushed
RECURSIVE RelationLoop(_, _, _)
RelationLoop(flattenedTasks, i, acc) ==
    IF ~(i < Len(flattenedTasks)) THEN acc
    ELSE LET batch == Slice(flattenedTasks, i, i + RelationBatchSize)
             settled == [k \in 1..Len(batch) |-> UpdateItem(batch[k])]
         IN  RelationLoop(flattenedTasks, i + RelationBatchSize,
                 [updatedCount |-> acc.updatedCount + Succeeded(settled),
                  errors |-> acc.errors
                             \cup {batch[k].id : k \in {j \in 1..Len(batch) : settled[j].pushed}},
                  requests |-> acc.requests \o RequestsOf(settled),
                  threw |-> FALSE])
updateHierarchicalRelations(flattenedTasks) ==
    RelationLoop(flattenedTasks, 0,
                 [updatedCount |-> 0, errors |-> {}, requests |-> <<>>, threw |-> FALSE])

\* the task lists: every task "ok" but two
RelationInputs ==
    UNION {{[k \in 1..n |-> [id |-> k,
                             state |-> IF k = a THEN sa ELSE IF k = b THEN sb ELSE "ok"]] :
              a \in 1..n, b \in 1..n, sa \in ItemStates, sb \in ItemStates} :
           n \in 1..MaxRelItems}
    \cup {<<>>}

UpdateRelations ==
    /\ fnCall = "updateHierarchicalRelations"
    /\ fnPc = "ready"
    /\ fnOut' = updateHierarchicalRelations(fnIn.flattenedTasks)
    /\ fnPc' = "done"
    /\ UNCHANGED <<fnCall, fnIn>>

(* ------------------------ deleteTaskFromNotion ------------------------- *)

\* getNotionPageId(mapping, tag, id) on the mapping file: <<>> for undefined
PageOf(mp, tag, id) ==
    IF \E e \in mp : e[1] = tag /\ e[2] = id
    THEN (CHOOSE e \in mp : e[1] = tag /\ e[2] = id)[3]
    ELSE <<>>
\* removeNotionPageId, then saveNotionSyncMapping
DropEntry(mp, tag, id) == {e \in mp : ~(e[1] = tag /\ e[2] = id)}

\* how pages.update({ archived: true }) ends after its retries: it returns,
\* or it throws an error whose message says the block is archived, an error
\* with another message, an error without a message
ArchiveOutcomes == {"ok", "archived", "other", "noMessage"}

\* error.message && error.message.includes("Can't edit block that is archived")
NeverIgnored(outcome) == FALSE
AlreadyArchived(outcome) == outcome = "archived"

\* deleteTaskFromNotion(task, tag, mapping, meta, mappingFile): whether it
\* threw, the mapping file afterwards, the requests sent, the contents saved
deleteTaskFromNotion(mp, tag, id, outcome) ==
    LET notionId == PageOf(mp, tag, id)
        newMapping == DropEntry(mp, tag, id)
    IN  IF notionId = <<>>
        THEN [threw |-> FALSE, mapping |-> mp, requests |-> <<>>, saves |-> <<>>]
        ELSE IF outcome = "ok" \/ AlreadyArchived(outcome)
        THEN [threw |-> FALSE, mapping |-> newMapping,
              requests |-> <<Request("archive", notionId, outcome = "ok")>>,
              saves |-> <<newMapping>>]
        ELSE [threw |-> TRUE, mapping |-> mp,
              requests |-> <<Request("archive", notionId, FALSE)>>,
              saves |-> <<>>]

\* the entities a mapping file names, and the mapping files: at most one page
\* for an entity
DeleteTags == {"x", "y"}
DeleteIds == {<<1>>, <<1, 2>>}
DeleteMappings ==
    {{<<k[1], k[2], f[k]>> : k \in K} :
        f \in [DeleteTags \X DeleteIds -> {ExistingPage(1), ExistingPage(2)}],
        K \in SUBSET (DeleteTags \X DeleteIds)}

Delete ==
    /\ fnCall = "deleteTaskFromNotion"
    /\ fnPc = "ready"
    /\ fnOut' = deleteTaskFromNotion(fnIn.mapping, fnIn.tag, fnIn.id, fnIn.outcome)
    /\ fnPc' = "done"
    /\ UNCHANGED <<fnCall, fnIn>>

(* ---------------- the relation payloads of the three paths -------------- *)

\* flattenTasksForHierarchy(tasks, tag) of the reset command, and the same
\* loop inside repairNotionHierarchy: the task, then each of its subtasks as
\* {...subtask, id: `${task.id}.${subtask.id}`, _parentId: String(task.id),
\* _isSubtask: true}; the dependencies are copied as they are
HierarchySubtask(t, st) ==
    [st EXCEPT !.id = SubId(t, st), !.parentId = t.id, !.isSubtask = TRUE]
RECURSIVE flattenTasksForHierarchy(_, _)
flattenTasksForHierarchy(tasks, tag) ==
    IF tasks = <<>> THEN <<>>
    ELSE LET t == Head(tasks) IN
         <<[id |-> TopId(t), task |-> t, tag |-> tag]>>
         \o [k \in 1..Len(t.subtasks) |->
                [id |-> SubId(t, t.subtasks[k]), task |-> HierarchySubtask(t, t.subtasks[k]),
                 tag |-> tag]]
         \o flattenTasksForHierarchy(Tail(tasks), tag)

\* mapping?.[tag]?.[depId]: the property key of a number n is the string of
\* its digits, the key of task n; the key of "p.s" is that of subtask s of p
DependencyKey(dep) == dep.val

\* buildHierarchicalRelations(task, tag, mapping, useDependencyRelations):
\* the page of 'Parent item' (<<>> when the property is not set) and the
\* pages of 'Dependencies Tasks' (<<>> when the property is not set)
buildHierarchicalRelations(task, tag, mapping, useDependencyRelations) ==
    [parentItem |-> IF task.parentId # 0 THEN PageOf(mapping, tag, <<task.parentId>>) ELSE <<>>,
     dependencies |->
        IF Len(task.dependencies) > 0 /\ useDependencyRelations
        THEN SelectSeq([k \in 1..Len(task.dependencies) |->
                           PageOf(mapping, tag, DependencyKey(task.dependencies[k]))],
                       LAMBDA notionId : notionId # <<>>)
        ELSE <<>>]

\* buildNotionRelationProperties(task, tag, mapping) of the sync path: one
\* text per id with the page its link goes to (<<>> for a text without link)
buildRichTextLinks(ids, tag, mapping) ==
    [k \in 1..Len(ids) |-> [content |-> ids[k], link |-> PageOf(mapping, tag, ids[k])]]
buildNotionRelationProperties(task, tag, mapping) ==
    [dependencies |->
        buildRichTextLinks([k \in 1..Len(task.dependencies) |-> task.dependencies[k].val],
                           tag, mapping),
     subtasks |-> buildRichTextLinks(task.subtasks, tag, mapping)]

\* the payloads of one path for the tasks of a tag
RelationPaths == {"sync", "reset", "repair"}
RelationPayloads(path, tasks, tag, mapping, useDependencyRelations) ==
    IF path = "sync"
    THEN LET f == flattenTasksWithTag(tasks, tag) IN
         [k \in 1..Len(f) |->
            [id |-> f[k].id,
             relations |-> buildNotionRelationProperties(f[k].task, tag, mapping)]]
    ELSE LET f == flattenTasksForHierarchy(tasks, tag) IN
         [k \in 1..Len(f) |->
            [id |-> f[k].id,
             relations |-> buildHierarchicalRelations(f[k].task, tag, mapping,
                                                      useDependencyRelations)]]

\* the mapping files: every task 1..MaxTaskId + 1 and every subtask has a page
\* of its own, or the tasks have none, or the subtasks have none
RelationPage(id) == <<"page", id>>
RelationIds ==
    {<<n>> : n \in 1..(MaxTaskId + 1)}
    \cup {<<p, n>> : p \in 1..MaxTaskId, n \in 1..(MaxTaskId + 1)}
RelationMappings ==
    {{<<"x", id, RelationPage(id)>> : id \in {i \in RelationIds : Len(i) \in lens}} :
        lens \in {{1, 2}, {1}, {2}}}

BuildRelations ==
    /\ fnCall = "buildHierarchicalRelations"
    /\ fnPc = "ready"
    /\ fnOut' = RelationPayloads(fnIn.path, <<fnIn.task>>, "x", fnIn.mapping,
                                 fnIn.useDependencyRelations)
    /\ fnPc' = "done"
    /\ UNCHANGED <<fnCall, fnIn>>

FnInputs(call) ==
    IF call = "validateHierarchyIntegrity"
    THEN [taskMasterData : Trees, notionHierarchy : Hierarchies]
    ELSE IF call = "checkRelationProperties"
    THEN [database : Schemas]
    ELSE IF call = "loadNotionSyncMapping"
    THEN [file : MappingFiles]
    ELSE IF call = "updateHierarchicalRelations"
    THEN [flattenedTasks : RelationInputs]
    ELSE IF call = "deleteTaskFromNotion"
    THEN [mapping : DeleteMappings, tag : DeleteTags, id : DeleteIds,
          outcome : ArchiveOutcomes]
    ELSE IF call = "buildHierarchicalRelations"
    THEN [path : RelationPaths, task : FlattenInputs, mapping : RelationMappings,
          useDependencyRelations : BOOLEAN]
    ELSE {}

FnCalls == {"validateHierarchyIntegrity", "checkRelationProperties", "loadNotionSyncMapping",
            "updateHierarchicalRelations", "deleteTaskFromNotion",
            "buildHierarchicalRelations"}

InitFn ==
    /\ unit = "functions"
    /\ log = <<>>
    /\ calls = 0
    /\ TxIdle /\ CompIdle /\ LoopIdle /\ BulkIdle /\ FileIdle /\ ResetIdle
    /\ FlightIdle /\ RetryIdle /\ DiffIdle /\ MapIdle /\ RepairIdle /\ SyncIdle
    /\ fnCall \in FnCalls
    /\ fnIn \in FnInputs(fnCall)
    /\ fnPc = "ready"
    /\ fnOut = <<>>

FnNext ==
    /\ unit = "functions"
    /\ \/ Validate
       \/ CheckRelations
       \/ Load
       \/ UpdateRelations
       \/ Delete
       \/ BuildRelations
    /\ UNCHANGED <<unit, log, calls, txVars, compVars, loopVars, bulkVars, fileVars,
                   resetVars, flightVars, retryVars, diffVars, mapVars, repairVars,
                   syncVars>>

SpecFn == InitFn /\ [][FnNext]_vars

(* ========================= syncTasksWithNotion ========================= *)

\* one request to the remote store, with the change record it was sent for
\* (0: sent before the loop over the changes)
SyncRequest(kind, page, ok, change) ==
    [kind |-> kind, page |-> page, ok |-> ok, change |-> change]

\* one saveNotionSyncMapping of the run: the step that saved ("add",
\* "update", "delete", "move"), the entity the step is about (for a move,
\* the entity moved away), the content written and the change record the
\* step belongs to (0: before the loop over the changes)
Save(by, tag, id, content, change) ==
    [by |-> by, tag |-> tag, id |-> id, content |-> content, change |-> change]

\* the state the run carries: the mapping (the variable and the file hold
\* the same whenever a step starts: the variable is loaded again after every
\* step that saves a mapping of its own), the live pages, the requests, how
\* many pages were created, whether a step threw, the saves, the change
\* records whose branch was entered
SyncState(mp, live) ==
    [mapping |-> mp, live |-> live, requests |-> <<>>, made |-> 0, threw |-> FALSE,
     writes |-> <<>>, applied |-> <<>>]

\* addTaskToNotion: pages.create, setNotionPageId, saveNotionSyncMapping
AddTask(st, tag, id, ok, k) ==
    LET page == CreatedPage(st.made + 1)
        newMapping == SetEntry(st.mapping, tag, id, page)
    IN  IF ~ok THEN [st EXCEPT !.requests = Append(@, SyncRequest("create", page, FALSE, k)),
                               !.threw = TRUE]
        ELSE [st EXCEPT !.mapping = newMapping,
                        !.live = @ \cup {page},
                        !.requests = Append(@, SyncRequest("create", page, TRUE, k)),
                        !.made = @ + 1,
                        !.writes = Append(@, Save("add", tag, id, newMapping, k))]

\* updateTaskInNotion: throws when the mapping has no page for the task;
\* pages.update, saveNotionSyncMapping(mapping)
UpdateTask(st, tag, id, ok, k) ==
    LET notionId == PageOf(st.mapping, tag, id) IN
    IF notionId = <<>> THEN [st EXCEPT !.threw = TRUE]
    ELSE IF ~ok THEN [st EXCEPT !.requests = Append(@, SyncRequest("update", notionId, FALSE, k)),
                                !.threw = TRUE]
    ELSE [st EXCEPT !.requests = Append(@, SyncRequest("update", notionId, TRUE, k)),
                    !.writes = Append(@, Save("update", tag, id, st.mapping, k))]

\* deleteTaskFromNotion, then the mapping is loaded again
DeleteTask(st, tag, id, outcome, k) ==
    LET d == deleteTaskFromNotion(st.mapping, tag, id, outcome) IN
    [st EXCEPT !.mapping = d.mapping,
               !.live = IF d.threw \/ d.requests = <<>> THEN @ ELSE @ \ {d.requests[1].page},
               !.requests = @ \o [i \in 1..Len(d.requests) |->
                                     SyncRequest(d.requests[i].kind, d.requests[i].page,
                                                 d.requests[i].ok, k)],
               !.threw = d.threw,
               !.writes = @ \o [i \in 1..Len(d.saves) |-> Save("delete", tag, id, d.saves[i], k)]]

\* the branch of the loop for change record k, whose remote call ends with
\* outcome
ApplyChange(st, change, outcome, k) ==
    CASE change.type = "added" -> AddTask(st, change.tag, change.id, outcome = "ok", k)
      [] change.type = "updated" -> UpdateTask(st, change.tag, change.id, outcome = "ok", k)
      [] change.type = "deleted" -> DeleteTask(st, change.tag, change.id, outcome, k)
      [] OTHER ->
            LET notionId == PageOf(st.mapping, change.prev_tag, change.id)
                newMapping == SetEntry(DropEntry(st.mapping, change.prev_tag, change.id),
                                       change.tag, change.cur_id, notionId)
            IN  IF notionId # <<>>
                THEN UpdateTask([st EXCEPT !.mapping = newMapping,
                                           !.writes = Append(@, Save("move", change.prev_tag,
                                                                     change.id, newMapping, k))],
                                change.tag, change.cur_id, outcome = "ok", k)
                ELSE AddTask(st, change.tag, change.cur_id, outcome = "ok", k)

\* the catch around the loop: a step that threw ends the loop
GoesOn(st) == FALSE
Stops(st) == st.threw

\* for (const change of changes): outcomes[k] is how the remote call of
\* change k ends; the error of a step is thrown again, the rest of the
\* changes is not applied
RECURSIVE ApplyChanges(_, _, _, _)
ApplyChanges(st, changes, k, outcomes) ==
    LET From(s) ==
            IF k > Len(changes) \/ Stops(s) THEN s
            ELSE ApplyChanges(ApplyChange([s EXCEPT !.applied = Append(@, k)],
                                          changes[k], outcomes[k], k),
                              changes, k + 1, outcomes)
    IN  CHOOSE r \in {From(s) : s \in {st}} : TRUE

\* ensureAllTasksHaveNotionMapping(prevTasks, ...): a page is created for
\* every entity of prevTasks the mapping has no page for; E holds the
\* entities whose create fails: the error is logged and the loop goes on
RECURSIVE EnsureMapped(_, _, _, _)
EnsureMapped(st, entities, k, E) ==
    LET From(s) ==
            IF k > Len(entities) THEN s
            ELSE LET e == entities[k] IN
                 EnsureMapped(IF PageOf(s.mapping, e.tag, e.id) = <<>>
                              THEN [AddTask(s, e.tag, e.id, k \notin E, 0) EXCEPT !.threw = FALSE]
                              ELSE s,
                              entities, k + 1, E)
    IN  CHOOSE r \in {From(s) : s \in {st}} : TRUE

\* the flattened entities of a snapshot, tag after tag
RECURSIVE FlatEntities(_)
FlatEntities(snap) ==
    IF snap = <<>> THEN <<>>
    ELSE flattenTasksWithTag(Head(snap).tasks, Head(snap).tag) \o FlatEntities(Tail(snap))

\* the mapping file and the database before the call: a page of its own for
\* every entity of prevTasks, and no other page
PagesOfEntities(entities) ==
    {<<entities[k].tag, entities[k].id, ExistingPage(k)>> : k \in 1..Len(entities)}

\* updateAllTaskRelationsInNotion(prevTasks, mapping), called when the
\* mapping changed: one pages.update for every entity of prevTasks that has
\* dependencies or subtasks and a page; a failing update is logged
HasRelations(task) == Len(task.dependencies) > 0 \/ Len(task.subtasks) > 0
RECURSIVE AllRelations(_, _, _)
AllRelations(entities, mp, ok) ==
    IF entities = <<>> THEN <<>>
    ELSE LET e == Head(entities)
             notionId == PageOf(mp, e.tag, e.id)
         IN  (IF HasRelations(e.task) /\ notionId # <<>>
              THEN <<SyncRequest("relations", notionId, ok, 0)>> ELSE <<>>)
                 \o AllRelations(Tail(entities), mp, ok)

\* updateChangedTaskRelationsInNotion(changes, mapping): one pages.update
\* for every added, updated or moved record whose entity has a page (the
\* relation properties of a flattened entity are never empty: dependencies
\* and subtasks are arrays); a failing update is logged
RECURSIVE ChangedRelations(_, _, _, _)
ChangedRelations(changes, k, mp, ok) ==
    IF k > Len(changes) THEN <<>>
    ELSE LET c == changes[k]
             id == IF c.type = "moved" THEN c.cur_id ELSE c.id
             notionId == PageOf(mp, c.tag, id)
         IN  (IF c.type \in {"added", "updated", "moved"} /\ notionId # <<>>
              THEN <<SyncRequest("relations", notionId, ok, k)>> ELSE <<>>)
                 \o ChangedRelations(changes, k + 1, mp, ok)

\* the outcome of the remote call of every change record: the calls of the
\* records in A find the page archived already, the call of record fail
\* (0: none) fails otherwise
OutcomesOf(n, A, fail) ==
    [k \in 1..n |-> IF k = fail THEN "other" ELSE IF k \in A THEN "archived" ELSE "ok"]

\* syncTasksWithNotion(prevTasks, curTasks, projectRoot): E holds the
\* entities whose create fails in ensureAllTasksHaveNotionMapping, A, fail
\* give the outcomes of the calls of the loop, relOk that of the relation
\* updates
SyncTasks ==
    /\ syncPc = "ready"
    /\ \E entities \in {FlatEntities(previous)}, changes \in {diffTasks(previous, current)} :
       \E E \in SUBSET {k \in 1..Len(entities) :
                            PageOf(syncMapping, entities[k].tag, entities[k].id) = <<>>},
          fail \in 0..Len(changes), relOk \in BOOLEAN :
       \E A \in SUBSET {k \in 1..Len(changes) : changes[k].type = "deleted" /\ k # fail} :
       \E ensured \in {EnsureMapped(SyncState(syncMapping, syncLive), entities, 1, E)} :
       \E related \in {IF ensured.mapping # syncMapping
                       THEN [ensured EXCEPT !.requests =
                                @ \o AllRelations(entities, ensured.mapping, relOk)]
                       ELSE ensured} :
       \E done \in {ApplyChanges(related, changes, 1, OutcomesOf(Len(changes), A, fail))} :
           /\ finalChanges' = changes
           /\ syncMapping' = done.mapping
           /\ syncLive' = done.live
           /\ syncRequests' = done.requests
                \o (IF done.threw THEN <<>>
                    ELSE ChangedRelations(changes, 1, done.mapping, relOk))
           /\ syncWrites' = done.writes
           /\ syncApplied' = done.applied
           /\ syncPc' = IF done.threw THEN "thrown" ELSE "returned"
    /\ diffPc' = "done"
    /\ UNCHANGED <<previous, current, flatArr, flatMap, syncBefore>>

\* the snapshots a sync is called with: two tags, tasks 1 and 2; task 1 of
\* tag x has either title, every other task the first title
SyncIds == {1, 2}
SyncTasksOf(tag, id) ==
    IF tag = "x" /\ id = 1 THEN PlainTasks(id) ELSE SameTitleTasks(id)
SyncEntries(tag) ==
    {[present |-> FALSE, tasks |-> <<>>]}
        \cup {[present |-> TRUE, tasks |-> l] :
                l \in ListsOver(SyncIds, LAMBDA id : SyncTasksOf(tag, id)) \ {<<>>}}
SyncSnapshots == {Snapshot(x, y) : x \in SyncEntries("x"), y \in SyncEntries("y")}

\* the mapping file before the call: a page of its own for some of the
\* entities of prevTasks; the live pages are the pages of the file
InitSync ==
    /\ unit = "sync"
    /\ log = <<>>
    /\ calls = 0
    /\ TxIdle /\ CompIdle /\ LoopIdle /\ BulkIdle /\ FileIdle /\ ResetIdle
    /\ FlightIdle /\ RetryIdle /\ MapIdle /\ RepairIdle /\ FnIdle
    /\ previous \in SyncSnapshots
    /\ current \in SyncSnapshots
    /\ diffPc = "ready"
    /\ finalChanges = <<>>
    /\ flatArr = <<>>
    /\ flatMap = <<>>
    /\ syncPc = "ready"
    /\ syncMapping \in SUBSET PagesOfEntities(FlatEntities(previous))
    /\ syncBefore = syncMapping
    /\ syncLive = {e[3] : e \in syncMapping}
    /\ syncRequests = <<>>
    /\ syncWrites = <<>>
    /\ syncApplied = <<>>

(* ---------------------------- resetNotionDB --------------------------- *)

\* saveNotionSyncMapping(mapping, meta = {}, mappingFile): the content of the
\* file afterwards.  fs.writeFileSync(undefined, ...) throws a TypeError,
\* which the catch logs: the file keeps its content
saveNotionSyncMapping(content, mapping, metadata, mappingFile) ==
    IF mappingFile = Undef THEN content ELSE mapping

\* path.resolve(projectRoot, TASKMASTER_NOTION_SYNC_FILE)
ResetMappingFile == "notion-sync.json"
NoMeta == {}
\* step 3: saveNotionSyncMapping(mappingFile, {}): the path is the first
\* argument, {} the second, and the third is undefined
ClearMapping(content) == saveNotionSyncMapping(content, ResetMappingFile, NoMeta, Undef)

\* resetNotionDB(projectRoot) up to the call of syncTasksWithNotion: fetchOk
\* tells whether fetchAllNotionPages returns, archived holds the pages
\* archivePagesInParallel archives (all of them, or all but one), loaded
\* tells whether readJSON gives the tagged data.  The call
\* syncTasksWithNotion(emptyPrevious, currentData._rawTaggedData) of step 5
\* is the action SyncTasks with previous empty: when it returns, the reset
\* returns success: true; when it throws, the catch returns success: false.
\* syncBefore becomes the mapping that sync loads when it starts
ResetDB ==
    /\ syncPc = "reset"
    /\ \E cleared \in {ClearMapping(syncMapping)}, order \in {Ascending({e[2] : e \in syncLive})} :
       \E fetchOk \in BOOLEAN, loaded \in BOOLEAN,
          archived \in {syncLive} \cup {syncLive \ {page} : page \in syncLive} :
       \E query \in {<<SyncRequest("query", <<>>, fetchOk, 0)>>},
          archives \in {[k \in 1..Len(order) |->
                            SyncRequest("archive", ExistingPage(order[k]),
                                        ExistingPage(order[k]) \in archived, 0)]} :
           IF ~fetchOk
           THEN /\ syncRequests' = query
                /\ syncPc' = "failed"
                /\ UNCHANGED <<syncMapping, syncLive, syncBefore>>
           ELSE /\ syncRequests' = query \o archives
                /\ syncLive' = syncLive \ archived
                /\ syncMapping' = cleared
                /\ syncBefore' = cleared
                /\ syncPc' = IF loaded THEN "ready" ELSE "failed"
    /\ UNCHANGED <<previous, current, flatArr, flatMap, finalChanges, diffPc, syncWrites,
                   syncApplied>>

\* the mapping file before the reset: pages of earlier syncs for some of the
\* tasks 1, 2 of the tags x, y; the database holds these pages; previous is
\* the emptyPrevious handed to the sync, current the local store
ResetDBEntries ==
    {<<"x", <<1>>, ExistingPage(1)>>, <<"x", <<2>>, ExistingPage(2)>>,
     <<"y", <<1>>, ExistingPage(3)>>, <<"y", <<2>>, ExistingPage(4)>>}
InitResetDB ==
    /\ unit = "resetNotionDB"
    /\ log = <<>>
    /\ calls = 0
    /\ TxIdle /\ CompIdle /\ LoopIdle /\ BulkIdle /\ FileIdle /\ ResetIdle
    /\ FlightIdle /\ RetryIdle /\ MapIdle /\ RepairIdle /\ FnIdle
    /\ previous = <<>>
    /\ current \in SyncSnapshots
    /\ diffPc = "ready"
    /\ finalChanges = <<>>
    /\ flatArr = <<>>
    /\ flatMap = <<>>
    /\ syncPc = "reset"
    /\ syncMapping \in SUBSET ResetDBEntries
    /\ syncBefore = syncMapping
    /\ syncLive = {e[3] : e \in syncMapping}
    /\ syncRequests = <<>>
    /\ syncWrites = <<>>
    /\ syncApplied = <<>>

ResetDBNext ==
    /\ unit = "resetNotionDB"
    /\ ResetDB
    /\ UNCHANGED <<unit, log, calls, txVars, compVars, loopVars, bulkVars, fileVars,
                   resetVars, flightVars, retryVars, mapVars, repairVars, fnVars>>

SyncNext ==
    /\ unit \in {"sync", "resetNotionDB"}
    /\ SyncTasks
    /\ UNCHANGED <<unit, log, calls, txVars, compVars, loopVars, bulkVars, fileVars,
                   resetVars, flightVars, retryVars, mapVars, repairVars, fnVars>>

SpecSync == (InitSync \/ InitResetDB) /\ [][SyncNext \/ ResetDBNext]_vars

(* ============ specification of the transaction framework ============== *)

InitTx ==
    /\ unit = "TransactionManager"
    /\ log = <<>>
    /\ calls = 0
    /\ TxIdle /\ CompIdle /\ LoopIdle
    /\ BulkIdle /\ FileIdle /\ ResetIdle /\ MoreIdle

InitComp ==
    /\ unit = "CompositeOperation"
    /\ log = <<>>
    /\ calls = 0
    /\ TxIdle /\ LoopIdle
    /\ BulkIdle /\ FileIdle /\ ResetIdle /\ MoreIdle
    /\ compOperations \in 0..MaxCompOps
    /\ executedOperations = <<>>
    /\ compPc = "ready"
    /\ compIdx = 1

SpecTx == (InitTx \/ InitComp) /\ [][TxNext \/ CompNext]_vars

(* ================== properties of the transaction framework =========== *)

SetMax(S) == CHOOSE x \in S : \A y \in S : y <= x

Reverse(s) == [i \in 1..Len(s) |-> s[Len(s) + 1 - i]]

\* positions of the history strictly between a and b holding an event ev
Between(a, b, ev) == {q \in (a + 1)..(b - 1) : log[q].ev = ev}

\* the operations of the events ev strictly between a and b, in history order
RECURSIVE OpsBetween(_, _, _)
OpsBetween(a, b, ev) ==
    IF a + 1 >= b THEN <<>>
    ELSE (IF log[a + 1].ev = ev THEN <<log[a + 1].op>> ELSE <<>>)
         \o OpsBetween(a + 1, b, ev)

\* the operations whose execute() returned strictly between a and b
RECURSIVE ExecutedBetween(_, _)
ExecutedBetween(a, b) ==
    IF a + 1 >= b THEN <<>>
    ELSE (IF log[a + 1].ev = "execute" /\ log[a + 1].ok THEN <<log[a + 1].op>> ELSE <<>>)
         \o ExecutedBetween(a + 1, b)

\* the last position before p where the rollback history was discarded
\* (a commit or the end of a rollback), 0 when there is none
TxStart(p) ==
    LET S == {q \in 1..(p - 1) : log[q].ev \in {"commit", "rollbackEnd"}}
    IN  IF S = {} THEN 0 ELSE SetMax(S)

\* the position of the last execute() that threw before p, 0 when there is none
LastFailure(p) ==
    LET S == {q \in 1..(p - 1) : log[q].ev = "execute" /\ ~log[q].ok}
    IN  IF S = {} THEN 0 ELSE SetMax(S)

\* the position of the last rollbackBegin before p, 0 when there is none
LastBegin(p) ==
    LET S == {q \in 1..(p - 1) : log[q].ev = "rollbackBegin"}
    IN  IF S = {} THEN 0 ELSE SetMax(S)

\* position p lies inside a running rollback
InsideRollback(p) ==
    LET b == LastBegin(p) IN b > 0 /\ Between(b, p, "rollbackEnd") = {}

\* C1: TransactionManager.executeOperation: when an execute() throws after
\* op1..opn executed successfully, rollback is invoked on opn, ..., op1 in
\* that order, all of it before the error reaches the caller, and the error
\* that reaches the caller is the one execute() threw; and once the manager
\* is idle again every failed execute() has reached the caller.
C1_ReverseRollbackThenRethrow ==
    unit = "TransactionManager" =>
        /\ \A j \in 1..Len(log) :
              log[j].ev = "throw" =>
                 LET e == LastFailure(j) IN
                 /\ e > 0
                 /\ Between(e, j, "throw") = {}
                 /\ log[j].err = ExecError(log[e].op)
                 /\ OpsBetween(e, j, "rollback") = Reverse(ExecutedBetween(TxStart(e), e))
        /\ tmPc = "idle" =>
              \A e \in 1..Len(log) :
                 (log[e].ev = "execute" /\ ~log[e].ok) =>
                    \E j \in (e + 1)..Len(log) :
                       /\ log[j].ev = "throw"
                       /\ Between(e, j, "execute") = {}

\* C1 witness: a failing executeOperation after two successful ones has
\* reached the caller
C1_Witness ==
    /\ unit = "TransactionManager"
    /\ \E j \in 1..Len(log) :
          /\ log[j].ev = "throw"
          /\ Len(OpsBetween(LastFailure(j), j, "rollback")) >= 2

\* C2: CompositeOperation.execute: when operation k throws, operations
\* 1..k-1 have rollback invoked exactly once each, in the order k-1, ..., 1,
\* operations k+1..n are never executed, and the error of operation k is
\* re-thrown unchanged.
C2_CompositePartialRollback ==
    unit = "CompositeOperation" =>
        \A j \in 1..Len(log) :
           log[j].ev = "throw" =>
              LET e == LastFailure(j)
                  k == log[e].op
              IN
              /\ e > 0
              /\ log[j].err = ExecError(k)
              /\ ExecutedBetween(0, e) = [i \in 1..(k - 1) |-> i]
              /\ OpsBetween(e, j, "rollback") = [i \in 1..(k - 1) |-> k - i]
              /\ OpsBetween(0, Len(log) + 1, "rollback") = [i \in 1..(k - 1) |-> k - i]
              /\ Between(e, Len(log) + 1, "execute") = {}

\* C2 witness: the third operation of a composite threw, the error reached
\* the caller and rollback() was called on the composite afterwards
C2_Witness ==
    /\ unit = "CompositeOperation"
    /\ compPc = "rolledBack"
    /\ \E j \in 1..Len(log) :
          /\ log[j].ev = "throw"
          /\ log[j].err = ExecError(3)
          /\ compOperations > 3
          /\ \E q \in Between(0, j, "rollback") : ~log[q].ok

\* C4: a rollback() that throws stops neither TransactionManager.rollback
\* nor CompositeOperation.rollbackExecuted: every rollback run that ended has
\* invoked rollback on every operation recorded when it began, and an error
\* that reaches the caller is never the error of a rollback.
C4_RollbackFailureTolerated ==
    /\ \A r \in 1..Len(log) :
          log[r].ev = "rollbackEnd" =>
             LET b == LastBegin(r) IN
             /\ b > 0
             /\ OpsBetween(b, r, "rollback") = Reverse(ExecutedBetween(TxStart(b), b))
    /\ \A j \in 1..Len(log) :
          log[j].ev = "throw" => log[j].err[1] = "execute"

\* C4 witness: in a finished rollback run of the transaction manager the
\* first rollback() threw, a later one was still invoked, and the original
\* error reached the caller
C4_Witness ==
    /\ unit = "TransactionManager"
    /\ \E r \in 1..Len(log) :
          /\ log[r].ev = "rollbackEnd"
          /\ r < Len(log)
          /\ log[r + 1].ev = "throw"
          /\ \E p, q \in Between(LastBegin(r), r, "rollback") :
                p < q /\ ~log[p].ok

\* C5: rollback guard of the TransactionManager: inside a running rollback
\* no execute() is called and no second rollback loop begins (a nested
\* executeOperation is refused with the guard error, a nested rollback()
\* returns at once); the flag is false whenever no rollback is running; and
\* when a rollback has ended the recorded-operation list is empty.
C5_RollbackGuard ==
    unit = "TransactionManager" =>
        /\ \A p \in 1..Len(log) :
              InsideRollback(p) => log[p].ev \notin {"execute", "rollbackBegin"}
        /\ \A p \in 1..Len(log) :
              /\ log[p].ev = "refused" => InsideRollback(p) /\ log[p].err = GuardError
              /\ log[p].ev = "rollbackSkipped" => InsideRollback(p)
        /\ tmPc = "idle" => ~rollbackInProgress
        /\ tmPc = "rollback" => rollbackInProgress
        /\ (log # <<>> /\ TxStart(Len(log) + 1) > 0
               /\ log[TxStart(Len(log) + 1)].ev = "rollbackEnd"
               /\ Between(TxStart(Len(log) + 1), Len(log) + 1, "execute") = {})
              => operations = <<>>

\* C5 witness: during one rollback a nested executeOperation was refused and
\* a nested rollback() returned at once, and the rollback then ended
C5_Witness ==
    /\ unit = "TransactionManager"
    /\ \E r \in 1..Len(log) :
          /\ log[r].ev = "rollbackEnd"
          /\ Between(LastBegin(r), r, "refused") # {}
          /\ Between(LastBegin(r), r, "rollbackSkipped") # {}
          /\ Between(LastBegin(r), r, "rollback") # {}

\* C6: after commit(), no later rollback() and no later failing
\* executeOperation invokes rollback on an operation executed before the
\* commit.
C6_CommitDiscardsHistory ==
    unit = "TransactionManager" =>
        \A c \in 1..Len(log) :
           log[c].ev = "commit" =>
              \A q \in (c + 1)..Len(log) :
                 log[q].ev = "rollback" =>
                    \A i \in 1..(c - 1) : ~(log[i].ev = "execute" /\ log[i].op = log[q].op)

\* C6 witness: an operation executed, the transaction was committed, a later
\* operation executed and a rollback ran to its end after that
C6_Witness ==
    /\ unit = "TransactionManager"
    /\ \E c \in 1..Len(log) :
          /\ log[c].ev = "commit"
          /\ ExecutedBetween(0, c) # <<>>
          /\ Between(c, Len(log) + 1, "rollback") # {}
          /\ log[Len(log)].ev \in {"rollbackEnd", "throw"}

(* ============ properties of the bulk and mapping operations =========== *)

\* the pages of the requests of the given kind, in the order issued
RECURSIVE Requested(_, _)
Requested(reqs, kind) ==
    IF reqs = <<>> THEN <<>>
    ELSE (IF Head(reqs).kind = kind THEN <<Head(reqs).page>> ELSE <<>>)
         \o Requested(Tail(reqs), kind)

\* the pages of the requests of the given kind that had the given outcome
RECURSIVE Answered(_, _, _)
Answered(reqs, kind, ok) ==
    IF reqs = <<>> THEN <<>>
    ELSE (IF Head(reqs).kind = kind /\ Head(reqs).ok = ok THEN <<Head(reqs).page>> ELSE <<>>)
         \o Answered(Tail(reqs), kind, ok)

NoDuplicates(s) == Cardinality(Range(s)) = Len(s)

\* the records a bulk unit is asked to process, as the pages of its requests
InputPages ==
    IF unit = "CreatePagesOperation"
    THEN {CreatedPage(pages[k]) : k \in 1..Len(pages)}
    ELSE Range(pages)

\* the kind of request execute() issues
ExecuteKind == IF unit = "CreatePagesOperation" THEN "create" ELSE "archive"

\* C7: ArchivePagesOperation.rollback issues one un-archive request for
\* exactly the pages whose archive request succeeded in execute(), none for a
\* page whose archive failed or that is not in the input, whatever un-archive
\* requests fail; the rollback does not throw.
C7_RestoreExactlyArchived ==
    unit = "ArchivePagesOperation" =>
        /\ opPc # "thrown"
        /\ opPc = "rolledBack" =>
              /\ Range(Requested(requests, "unarchive"))
                    = Range(Answered(requests, "archive", TRUE))
              /\ NoDuplicates(Requested(requests, "unarchive"))
              /\ Range(Requested(requests, "unarchive"))
                    \cap Range(Answered(requests, "archive", FALSE)) = {}
              /\ Range(Requested(requests, "unarchive")) \subseteq Range(pages)
        /\ opPc # "rolledBack" => Requested(requests, "unarchive") = <<>>

\* C7 witness: a rollback after an execute() in which one archive failed and
\* two succeeded, where the first un-archive request failed and a later one
\* succeeded
C7_Witness ==
    /\ unit = "ArchivePagesOperation"
    /\ opPc = "rolledBack"
    /\ Answered(requests, "archive", FALSE) # <<>>
    /\ Len(Answered(requests, "archive", TRUE)) >= 2
    /\ \E p, q \in 1..Len(requests) :
          /\ p < q
          /\ requests[p].kind = "unarchive" /\ ~requests[p].ok
          /\ requests[q].kind = "unarchive" /\ requests[q].ok

\* C8: CreatePagesOperation.rollback issues one archive request for every
\* page execute() created and for no other page, whichever creations failed
\* and whichever archive requests fail.
C8_RemoveExactlyCreated ==
    unit = "CreatePagesOperation" =>
        /\ opPc # "thrown"
        /\ opPc = "rolledBack" =>
              /\ Requested(requests, "archive") = Answered(requests, "create", TRUE)
              /\ NoDuplicates(Requested(requests, "archive"))
              /\ Range(Requested(requests, "archive")) = Range(createdPages)
        /\ opPc # "rolledBack" => Requested(requests, "archive") = <<>>

\* C8 witness: a rollback after an execute() that created two pages and
\* failed to create one, where an archive request of the rollback failed
C8_Witness ==
    /\ unit = "CreatePagesOperation"
    /\ opPc = "rolledBack"
    /\ Answered(requests, "create", FALSE) # <<>>
    /\ Len(Answered(requests, "create", TRUE)) >= 2
    /\ Answered(requests, "archive", FALSE) # <<>>
    /\ Answered(requests, "archive", TRUE) # <<>>

\* C9: for UpdateMappingOperation and ClearMappingOperation, execute()
\* followed by rollback() leaves the mapping file as it was before execute():
\* the same content if it existed, no file if it did not.
C9_MappingRollbackRestores ==
    (unit \in {"UpdateMappingOperation", "ClearMappingOperation"} /\ opPc = "rolledBack")
        => file = fileBefore

\* C10: ArchivePagesOperation.execute, CreatePagesOperation.execute and
\* archivePagesInParallel never throw; they issue a request for every input
\* record, and return succeeded + failed = the number of input records, with
\* one error entry for each failed record and none for any other.
C10_PartialFailureNeverAborts ==
    unit \in {"ArchivePagesOperation", "CreatePagesOperation", "archivePagesInParallel"} =>
        /\ opPc # "thrown"
        /\ opPc = "returned" =>
              /\ Range(Requested(requests, ExecuteKind)) = InputPages
              /\ Len(Requested(requests, ExecuteKind)) = Len(pages)
              /\ results.succeeded + results.failed = Len(pages)
              /\ results.succeeded = Len(Answered(requests, ExecuteKind, TRUE))
              /\ results.failed = Len(Answered(requests, ExecuteKind, FALSE))
              /\ Len(results.errors) = results.failed
              /\ NoDuplicates(results.errors)
              /\ IF unit = "CreatePagesOperation"
                 THEN {CreatedPage(t) : t \in Range(results.errors)}
                         = Range(Answered(requests, "create", FALSE))
                 ELSE Range(results.errors) = Range(Answered(requests, "archive", FALSE))

\* C10 witness: archivePagesInParallel returned for a list longer than one
\* batch, with a failed record in the first batch and in the second, and
\* with records that succeeded
C10_Witness ==
    /\ unit = "archivePagesInParallel"
    /\ opPc = "returned"
    /\ Len(pages) > ParallelBatchSize
    /\ pages[1] \in Range(results.errors)
    /\ pages[Len(pages)] \in Range(results.errors)
    /\ results.succeeded >= 2

(* ==================== properties of the reset command ================= *)

\* C3: when ResetNotionCommand.execute has failed after the archive step
\* (clear-mapping, loading the local tasks, recreating the tasks or a later
\* step threw), the non-archived pages of the remote database and the
\* mapping file are what they were before the command started.  The claim is
\* taken in the case most favourable to it: there were pages to archive, the
\* mapping file existed before the command, and every restore request issued
\* by the rollback was answered with success.
C3_ResetAllOrNothing ==
    (/\ unit = "ResetNotionCommand"
     /\ resetPc = "failed"
     /\ pages # <<>>
     /\ fileBefore.exists
     /\ Answered(requests, "unarchive", FALSE) = <<>>)
        => /\ LivePages(Range(pages), requests) = Range(pages)
           /\ file = fileBefore

(* ================ properties of the outstanding requests ============== *)

\* the batch an item belongs to: batches of the size of the operation's loop,
\* and of ten for the restore of the bulk archive
BatchOfItem(op, k) ==
    (k - 1) \div (IF op = "ArchivePagesOperation.rollback" THEN ArchiveBatchSize
                  ELSE FlightBatchSize(op))

\* C11: in every bulk operation (execute and rollback of the bulk archive,
\* rollback of the bulk create, archivePagesInParallel, the batched relation
\* update) the outstanding requests all belong to one batch, so that no
\* request of batch k+1 is issued before every request of batch k is
\* answered, and at no time are more than ten requests outstanding.
C11_BoundedInFlight ==
    unit = "bulk requests" =>
        /\ Cardinality(inFlight) <= ArchiveBatchSize
        /\ \A a, b \in inFlight : BatchOfItem(flightOp, a[1]) = BatchOfItem(flightOp, b[1])

(* ====================== properties of executeWithRetry ================ *)

\* the errors the contract names as retryable: a rate-limit signal, a 409
\* conflict, a host that does not resolve, a connection reset, a timeout
Transient(e) ==
    \/ e.status \in {429, 409}
    \/ e.code \in {"rate_limited", "ENOTFOUND", "ECONNRESET", "ETIMEDOUT"}
    \/ e.bodyCode = "rate_limited"

\* every invocation made so far threw a retryable error
AlwaysRetryable ==
    \A k \in 1..Len(invocations) : ~invocations[k].ok /\ Transient(invocations[k])

\* the retries option was given as a number n >= 0
RetriesGiven == retryOptions.kind = "object" /\ retryOptions.has

\* C12: with retries = n >= 0, fn is never invoked more than n + 1 times; and
\* when every invocation fails with a retryable error, the call ends by
\* raising the error of the last invocation after exactly n + 1 invocations.
C12_RetryTermination ==
    (unit = "executeWithRetry" /\ RetriesGiven) =>
        /\ Len(invocations) <= retryOptions.retries + 1
        /\ (AlwaysRetryable /\ retryPc \in {"returned", "thrown"}) =>
              /\ retryPc = "thrown"
              /\ Len(invocations) = retryOptions.retries + 1
              /\ retryResult = <<"thrown", Len(invocations)>>
        /\ (AlwaysRetryable /\ Len(invocations) = retryOptions.retries + 1) =>
              retryPc = "thrown"

C12_Witness ==
    /\ unit = "executeWithRetry"
    /\ RetriesGiven
    /\ retryOptions.retries = 3
    /\ AlwaysRetryable
    /\ retryPc = "thrown"
    /\ Len(invocations) = 4

\* C13: an error that is neither a rate limit, nor a 409 conflict, nor one of
\* the three network codes ends the call at once: fn is not invoked again and
\* that error is the one raised; a successful invocation, first or retried,
\* ends the call with its result and no error.
C13_OnlyRetryableRetried ==
    unit = "executeWithRetry" =>
        \A k \in 1..Len(invocations) :
            /\ (~invocations[k].ok /\ ~Transient(invocations[k])) =>
                  /\ k = Len(invocations)
                  /\ retryPc = "thrown"
                  /\ retryResult = <<"thrown", k>>
            /\ invocations[k].ok =>
                  /\ k = Len(invocations)
                  /\ retryPc = "returned"
                  /\ retryResult = <<"returned", k>>

C13_Witness ==
    /\ unit = "executeWithRetry"
    /\ Len(invocations) = 2
    /\ Transient(invocations[1])
    /\ invocations[2] = Err(400, "validation_error", "")
    /\ attempt < RetriesOf(retryOptions)
    /\ retryPc = "thrown"

(* ================ properties of diffTasks and the flattening ========== *)

\* the flattened entities of a snapshot, each with its tag
EntitiesOf(snap) ==
    UNION {LET f == flattenTasksWithTag(snap[i].tasks, snap[i].tag)
           IN  {f[k] : k \in 1..Len(f)} : i \in 1..Len(snap)}
\* their keys (tag, id)
KeysOf(snap) == {<<e.tag, e.id>> : e \in EntitiesOf(snap)}

\* the positions of the records of finalChanges that satisfy a test
RecordsWhere(Test(_)) == {k \in 1..Len(finalChanges) : Test(finalChanges[k])}

\* C14: the diff of a snapshot with itself is empty, whatever its tags, tasks
\* and subtasks.
C14_DiffIdempotent ==
    (unit = "diffTasks" /\ diffPc = "done" /\ previous = current) => finalChanges = <<>>

C14_Witness ==
    /\ unit = "diffTasks"
    /\ diffPc = "done"
    /\ previous = current
    /\ Len(previous) = 1
    /\ Len(previous[1].tasks) = 2
    /\ Len(previous[1].tasks[1].subtasks) = 2
    /\ finalChanges = <<>>

\* C15: every entity of current whose (tag, id) is not in previous appears
\* exactly once in the result: as one `added` record, or as the cur side of
\* exactly one `moved` record.
C15_AddMoveComplementarity ==
    (unit = "diffTasks" /\ diffPc = "done") =>
        \A key \in KeysOf(current) \ KeysOf(previous) :
            Cardinality(RecordsWhere(LAMBDA c :
                \/ c.type = "added" /\ <<c.tag, c.id>> = key
                \/ c.type = "moved" /\ <<c.tag, c.cur_id>> = key)) = 1

\* the task of previous and the task of current of a pure move: both are
\* tasks without subtasks, under different tags, with the same title,
\* description, details, testStrategy and status, and every other entity is
\* the same in the two snapshots
PureMove(e, f) ==
    /\ e \in EntitiesOf(previous) /\ f \in EntitiesOf(current)
    /\ e.tag # f.tag
    /\ ~e.task.isSubtask /\ ~f.task.isSubtask
    /\ e.task.subtasks = <<>> /\ f.task.subtasks = <<>>
    /\ \A g \in {"title", "description", "details", "testStrategy", "status"} :
          e.task[g] = f.task[g]
    /\ <<f.tag, f.id>> \notin KeysOf(previous)
    /\ <<e.tag, e.id>> \notin KeysOf(current)
    /\ EntitiesOf(previous) \ {e} = EntitiesOf(current) \ {f}

\* C16: a task moved from tag x to tag y with nothing else changed gives
\* exactly one record, of type `moved`, from x to y.
C16_MoveDetected ==
    (unit = "diffTasks" /\ diffPc = "done") =>
        \A e \in EntitiesOf(previous), f \in EntitiesOf(current) :
            PureMove(e, f) =>
                /\ Len(finalChanges) = 1
                /\ finalChanges[1].type = "moved"
                /\ finalChanges[1].prev_tag = e.tag
                /\ finalChanges[1].tag = f.tag
                /\ finalChanges[1].id = e.id
                /\ finalChanges[1].cur_id = f.id

C16_Witness ==
    /\ unit = "diffTasks"
    /\ diffPc = "done"
    /\ \E e \in EntitiesOf(previous), f \in EntitiesOf(current) :
          PureMove(e, f) /\ e.tag = "x" /\ f.tag = "y"
    /\ Len(current[Len(current)].tasks) = 2
    /\ Len(finalChanges) = 1
    /\ finalChanges[1].type = "moved"

\* current is previous with the priority of one top-level task changed
OnlyPriorityChanged(i, k) ==
    /\ i \in 1..Len(previous)
    /\ k \in 1..Len(previous[i].tasks)
    /\ \E p \in {"high", "medium", "low"} :
          /\ p # previous[i].tasks[k].priority
          /\ current = [previous EXCEPT ![i].tasks[k].priority = p]

\* C17: when only the priority of a top-level task T changes, the result is
\* exactly one record, an `updated` record for T; and an `updated` record is
\* given only to an entity one of whose compared fields differs.
C17_UpdatePrecision ==
    (unit = "diffTasks" /\ diffPc = "done") =>
        /\ \A i \in 1..Len(previous) : \A k \in 1..Len(previous[i].tasks) :
              OnlyPriorityChanged(i, k) =>
                  /\ Len(finalChanges) = 1
                  /\ finalChanges[1].type = "updated"
                  /\ finalChanges[1].tag = previous[i].tag
                  /\ finalChanges[1].id = <<previous[i].tasks[k].id>>
        /\ \A c \in 1..Len(finalChanges) :
              finalChanges[c].type = "updated" =>
                  \E g \in {"title", "description", "details", "testStrategy",
                            "priority", "status", "dependencies", "subtasks"} :
                      finalChanges[c].prev[g] # finalChanges[c].cur[g]

\* the parent given to the flattening, its subtasks' ids, and the dependency
\* the contract expects for a stored dependency
FlattenedParent == current[1].tasks[1]
SiblingIds == {FlattenedParent.subtasks[k].id : k \in 1..Len(FlattenedParent.subtasks)}
ExpectedDep(dep) ==
    IF dep.kind \in {"number", "digits"} /\ Len(dep.val) = 1 /\ dep.val[1] \in SiblingIds
    THEN Dep("compound", <<FlattenedParent.id, dep.val[1]>>)
    ELSE dep

\* C18: in both flattenings a subtask's dependency that is a bare number, or
\* a string of digits, equal to a sibling's id becomes the compound id of
\* that sibling; every other dependency is unchanged; the two flattenings
\* return the same entities.
C18_SiblingDependencyRewritten ==
    (unit = "flattenTasks" /\ diffPc = "done") =>
        /\ Len(flatArr) = Len(FlattenedParent.subtasks) + 1
        /\ \A k \in 1..Len(FlattenedParent.subtasks) :
              LET st == FlattenedParent.subtasks[k] IN
              /\ flatArr[k].id = <<FlattenedParent.id, st.id>>
              /\ Len(flatArr[k].task.dependencies) = Len(st.dependencies)
              /\ \A j \in 1..Len(st.dependencies) :
                    flatArr[k].task.dependencies[j] = ExpectedDep(st.dependencies[j])
        /\ flatMap = [k \in 1..Len(flatArr) |-> [id |-> flatArr[k].id, task |-> flatArr[k].task]]

C18_Witness ==
    /\ unit = "flattenTasks"
    /\ diffPc = "done"
    /\ FlattenedParent.id = 2
    /\ SiblingIds = {1, 2}
    /\ FlattenedParent.subtasks[2].dependencies = <<Dep("number", <<1>>), Dep("number", <<3>>)>>
    /\ flatArr[2].task.dependencies = <<Dep("compound", <<2, 1>>), Dep("number", <<3>>)>>

(* ==================== properties of the identity map ================== *)

\* the last call, and the remote id a view holds for (tag, id)
LastCall == mapCalls[Len(mapCalls)]
Held(view, tag, id) == {e[3] : e \in {f \in view.entries : f[1] = tag /\ f[2] = id}}
After == View(mapNew, heap)

\* C19: get after set returns the remote id that was set; get after remove
\* is undefined, also when the remove follows a set of the same key; remove
\* deletes the tag entry when no id is left under the tag; set and remove
\* leave the entries of every other (tag, id) as they were.
C19_MapRoundTrip ==
    (unit = "identity map" /\ mapCalls # <<>>) =>
        /\ LastCall.op = "set" =>
              getNotionPageId(mapNew, heap, LastCall.tag, LastCall.id) = LastCall.notionId
        /\ LastCall.op = "remove" =>
              /\ getNotionPageId(mapNew, heap, LastCall.tag, LastCall.id) = Undef
              /\ (\A e \in After.entries : e[1] # LastCall.tag) => LastCall.tag \notin After.tags
        /\ \A tag \in {"x", "y"}, id \in 1..MaxMapId :
              <<tag, id>> # <<LastCall.tag, LastCall.id>> =>
                  Held(After, tag, id) = Held(mapBefore, tag, id)

C19_Witness ==
    /\ unit = "identity map"
    /\ Len(mapCalls) = 2
    /\ mapCalls[1].op = "set" /\ mapCalls[1].notionId = "p9"
    /\ mapCalls[2].op = "remove"
    /\ mapCalls[1].tag = mapCalls[2].tag /\ mapCalls[1].id = mapCalls[2].id
    /\ mapCalls[2].tag \notin After.tags
    /\ After.entries # {}

\* C20: set and remove are copy-on-write: the mapping passed to the call,
\* with its per-tag id tables, holds after the call exactly what it held
\* before.
C20_MapCopyOnWrite ==
    (unit = "identity map" /\ mapCalls # <<>>) => View(mapArg, heap) = mapBefore

(* ===================== properties of the repair ======================== *)

\* the pages the first fetch found with taskid m
Carriers(m) == {p \in Range(notionPages) : TaskIdOf(p) = m}
DistinctTimes(S) == \A p \in S, q \in S : p # q => CreatedAt(p) # CreatedAt(q)
\* the most recently created page of S
MostRecent(S) == CHOOSE p \in S : \A q \in S : CreatedAt(q) <= CreatedAt(p)
\* a taskid that several pages of distinct creation times carry
Duplicated(m) == Cardinality(Carriers(m)) >= 2 /\ DistinctTimes(Carriers(m))
RECURSIVE ExcessPages(_)
ExcessPages(ids) ==
    IF ids = <<>> THEN 0
    ELSE (IF Cardinality(Carriers(Head(ids))) >= 2
          THEN Cardinality(Carriers(Head(ids))) - 1 ELSE 0) + ExcessPages(Tail(ids))
EveryArchiveSucceeded == \A k \in 1..Len(repRequests) :
    repRequests[k].kind = "archive" => repRequests[k].ok
\* a run that was not a dry run returned its report, and no archive request failed
RepairedForReal ==
    /\ unit = "repair" /\ repairPc = "returned"
    /\ ~repOptions.dryRun
    /\ report.success
    /\ EveryArchiveSucceeded
\* of the pages that carried m, the most recent one only is not archived
OnlyMostRecentLeft(m) ==
    Carriers(m) \cap LiveAfter(repRequests) = {MostRecent(Carriers(m))}
RightCount ==
    (\A m \in RepIds : Cardinality(Carriers(m)) >= 2 => DistinctTimes(Carriers(m)))
        => report.duplicatesRemoved = ExcessPages(RepIdSeq)
\* the extra-task phase leaves the pages of m alone
KeptByPhase4(m) ==
    repOp = "repairNotionDuplicates" \/ repOptions.preserveExtraTasks \/ m \in repLocal.cur

\* C21 as stated: after a repair that was not a dry run and whose archive calls
\* all succeeded, of the pages that carried a duplicated taskid exactly the
\* most recently created one is left, and duplicatesRemoved counts the others.
C21_AsStated ==
    RepairedForReal =>
        /\ \A m \in RepIds : Duplicated(m) => OnlyMostRecentLeft(m)
        /\ RightCount

\* C21 (amended): the same, for the taskids the extra-task phase does not
\* remove: those of a local task of the current tag, every taskid when
\* preserveExtraTasks is set, every taskid in repairNotionDuplicates.
C21_MostRecentKept ==
    RepairedForReal =>
        /\ \A m \in RepIds : Duplicated(m) /\ KeptByPhase4(m) => OnlyMostRecentLeft(m)
        /\ RightCount

\* three pages of distinct creation times carried the taskid of a local task,
\* the oldest first, and the repair reported two removed duplicates
C21_Witness ==
    /\ RepairedForReal
    /\ repOp = "repairNotionDB"
    /\ \E m \in repLocal.cur :
          /\ Cardinality(Carriers(m)) = 3 /\ Duplicated(m)
          /\ CreatedAt(ExistingPage(1)) < CreatedAt(ExistingPage(3))
    /\ report.duplicatesRemoved = 2

\* a local task with the tag and the taskid of page p exists
LocalEntityOf(p) ==
    \/ TagOf(p) = RepairTag /\ TaskIdOf(p) \in repLocal.cur
    \/ TagOf(p) = OtherTag /\ TaskIdOf(p) \in repLocal.other
\* another page the run found carries the tag and the taskid of p
SameIdentityElsewhere(p) ==
    \E q \in Range(notionPages) : q # p /\ TagOf(q) = TagOf(p) /\ TaskIdOf(q) = TaskIdOf(p)

\* C22: the repair asks to archive a page only as a duplicate of a page of the
\* same tag and the same taskid, or as a page for whose (tag, taskid) no local
\* task exists; it never archives the only page of a task of another tag.
C22_TagScopedIdentity ==
    unit = "repair" =>
        \A k \in 1..Len(repRequests) :
            repRequests[k].kind = "archive" =>
                \/ SameIdentityElsewhere(repRequests[k].page)
                \/ ~LocalEntityOf(repRequests[k].page)

\* the fields of the object repairNotionDB returns after a run without terminal error
ReportFields ==
    {"success", "dryRun", "taskmasterTaskCount", "notionPageCount", "duplicatesFound",
     "duplicatesRemoved", "tasksAdded", "extraTasksFound", "extraTasksRemoved",
     "invalidMappingsFound", "invalidMappingsRemoved", "pagesWithoutTaskId",
     "duplicateDetails", "additionDetails", "preserveExtraTasks", "summary"}
RepairDBReported ==
    unit = "repair" /\ repOp = "repairNotionDB" /\ repairPc = "returned" /\ report.success

\* C23: a dry run of either repair function sends no create, update or archive
\* request and never writes the mapping file, whatever the database and the
\* local tasks; the report of repairNotionDB has the same fields with and
\* without dryRun.
C23_DryRunReadOnly ==
    /\ unit = "repair" /\ repOptions.dryRun =>
          /\ repRequests = <<>>
          /\ repWrites = 0
          /\ repMapping = MappingOf(remote, repLocal)
    /\ RepairDBReported => DOMAIN report = ReportFields

\* a dry run of repairNotionDB returned after it found duplicates, a missing
\* task, an extra task and an invalid mapping entry
C23_Witness ==
    /\ RepairDBReported
    /\ repOptions.dryRun /\ ~repOptions.preserveExtraTasks
    /\ report.duplicatesFound > 0
    /\ report.additionDetails # <<>>
    /\ report.extraTasksFound > 0
    /\ report.invalidMappingsFound > 0
    /\ repRequests = <<>>

\* repairNotionDB returned { success: false } after a stage threw
RepairDBFailed ==
    unit = "repair" /\ repOp = "repairNotionDB" /\ repairPc = "returned" /\ ~report.success

C30_OnlyInvalidMappingsRemoved ==
    [][unit = "repair" /\ repairPc = "reconcile" =>
          \A e \in repMapping \ repMapping' : e[3] \notin LiveAfter(repRequests)]_vars

(* ======================= properties of the functions =================== *)

Validated == unit = "functions" /\ fnCall = "validateHierarchyIntegrity" /\ fnPc = "done"
\* the local entities: <<id>> for a task, <<id, subId>> for a subtask
LocalEntities ==
    UNION {{<<fnIn.taskMasterData[k].id>>}
           \cup {<<fnIn.taskMasterData[k].id, fnIn.taskMasterData[k].subtasks[j]>> :
                    j \in 1..Len(fnIn.taskMasterData[k].subtasks)} :
           k \in 1..Len(fnIn.taskMasterData)}
\* the containing task for a subtask, no parent for a task
ExpectedParent(e) == IF Len(e) = 2 THEN <<e[1]>> ELSE NoParent
Reported(type, e) ==
    \E k \in 1..Len(fnOut.issues) : fnOut.issues[k].type = type /\ fnOut.issues[k].taskId = e

\* C25: for every local entity present in the remote view a parent_mismatch is
\* reported exactly when the remote parent differs from the expected local
\* parent (the containing task of a subtask, none for a task), and
\* missing_in_notion is reported exactly for the local entities the view lacks.
C25_ParentMismatchExact ==
    Validated =>
        \A e \in LocalEntities :
            /\ Reported("missing_in_notion", e) <=> e \notin DOMAIN fnIn.notionHierarchy
            /\ e \in DOMAIN fnIn.notionHierarchy =>
                  (Reported("parent_mismatch", e)
                      <=> fnIn.notionHierarchy[e].parentId # ExpectedParent(e))

Checked == unit = "functions" /\ fnCall = "checkRelationProperties" /\ fnPc = "done"
\* the schema has a property of type relation named name whose lower-cased name
\* contains the keyword
RelationNamed(name, keyword) ==
    \E k \in 1..Len(fnIn.database) :
        /\ fnIn.database[k].name = name
        /\ fnIn.database[k].prop.type = "relation"
        /\ \E j \in 1..Len(name) : LowerPiece(name[j]) = keyword
KindDetected(has, name, keyword) ==
    /\ has <=> \E n \in PropertyNames : RelationNamed(n, keyword)
    /\ has => RelationNamed(name, keyword)

\* C26 as stated: each of the three kinds is reported present exactly when the
\* schema has a relation property whose lower-cased name contains the keyword
\* of the kind, and the name reported is the name of such a property.
C26_AsStated ==
    Checked =>
        /\ KindDetected(fnOut.hasParentRelation, fnOut.parentRelationName, "parent")
        /\ KindDetected(fnOut.hasSubItemRelation, fnOut.subItemRelationName, "sub")
        /\ KindDetected(fnOut.hasDependencyRelation, fnOut.dependencyRelationName,
                        "dependenc")

\* the same for a property that counts for one kind only: the first of
\* "parent", "sub", "dependenc" that its lower-cased name contains
RelationOfKind(name, keyword, earlier) ==
    /\ RelationNamed(name, keyword)
    /\ \A j \in 1..Len(name) : LowerPiece(name[j]) \notin earlier
KindOfFirstKeyword(has, name, keyword, earlier) ==
    /\ has <=> \E n \in PropertyNames : RelationOfKind(n, keyword, earlier)
    /\ has => RelationOfKind(name, keyword, earlier)

\* C26 (amended): a kind is reported present exactly when the schema has a
\* relation property whose lower-cased name contains the keyword of the kind
\* and no keyword tested before it (parent, then sub, then dependenc); the
\* name reported is the name of such a property; a property that is not a
\* relation makes no kind present.
C26_CapabilityDetection ==
    Checked =>
        /\ KindOfFirstKeyword(fnOut.hasParentRelation, fnOut.parentRelationName,
                              "parent", {})
        /\ KindOfFirstKeyword(fnOut.hasSubItemRelation, fnOut.subItemRelationName,
                              "sub", {"parent"})
        /\ KindOfFirstKeyword(fnOut.hasDependencyRelation, fnOut.dependencyRelationName,
                              "dependenc", {"parent", "sub"})

\* the schema had a relation "item Sub" and a text property "Parent": the
\* sub-item relation is reported under its exact name, no parent relation is
C26_Witness ==
    /\ Checked
    /\ fnIn.database = <<[name |-> <<"item", "Sub">>, prop |-> [type |-> "relation"]],
                         [name |-> <<"Parent">>, prop |-> [type |-> "rich_text"]]>>
    /\ fnOut.hasSubItemRelation /\ fnOut.subItemRelationName = <<"item", "Sub">>
    /\ ~fnOut.hasParentRelation

Loaded == unit = "functions" /\ fnCall = "loadNotionSyncMapping" /\ fnPc = "done"
\* the file is there, can be read, and its text is JSON
Parsable(f) == f.exists /\ f.readable /\ f.parses
\* the object stored in the file under name, the empty object when the file
\* stores none there
Stored(f, name) ==
    IF f.data.kind = "object" /\ name \in DOMAIN f.data.fields
       /\ f.data.fields[name].kind = "object"
    THEN f.data.fields[name] ELSE JsonObject({})

\* C28: loadNotionSyncMapping never raises; it returns {mapping: {}, meta: {}}
\* when the file is absent or cannot be parsed, and the stored mapping and
\* meta otherwise.
C28_LoadDegradesToEmpty ==
    Loaded =>
        /\ ~fnOut.threw
        /\ ~Parsable(fnIn.file) => fnOut.value = EmptyLoad
        /\ Parsable(fnIn.file) =>
              fnOut.value = [mapping |-> Stored(fnIn.file, "mapping"),
                             meta |-> Stored(fnIn.file, "meta")]

\* a file that exists and is not JSON was loaded as the empty structures
C28_Witness ==
    /\ Loaded
    /\ fnIn.file.exists /\ fnIn.file.readable /\ ~fnIn.file.parses
    /\ fnOut = Returned(EmptyLoad)

RelationsUpdated ==
    unit = "functions" /\ fnCall = "updateHierarchicalRelations" /\ fnPc = "done"
Sent(kind, id, ok) ==
    \E k \in 1..Len(fnOut.requests) : fnOut.requests[k] = RelRequest(kind, id, ok)
SentAny(kind, id) == Sent(kind, id, TRUE) \/ Sent(kind, id, FALSE)
StateOf(k) == fnIn.flattenedTasks[k].state

\* C27: for a mapped record found archived no update is sent, nothing is
\* raised and the record is not in errors; a record whose retrieve or update
\* fails is in errors, and every other record with a page and relations is
\* still retrieved, in the same and in later batches; updatedCount is the
\* number of records whose update succeeded.
C27_BatchedRelationUpdate ==
    RelationsUpdated =>
        /\ ~fnOut.threw
        /\ \A k \in 1..Len(fnIn.flattenedTasks) :
              /\ StateOf(k) = "archived" => ~SentAny("update", k) /\ k \notin fnOut.errors
              /\ StateOf(k) \in {"retrieveFails", "updateFails"} => k \in fnOut.errors
              /\ StateOf(k) \notin {"unmapped", "norelations"} => SentAny("retrieve", k)
              /\ StateOf(k) = "ok" => Sent("update", k, TRUE)
        /\ fnOut.updatedCount =
              Cardinality({k \in 1..Len(fnIn.flattenedTasks) : Sent("update", k, TRUE)})

\* a record of the first batch failed and one was archived; the records of
\* the second batch were updated all the same
C27_Witness ==
    /\ RelationsUpdated
    /\ Len(fnIn.flattenedTasks) > RelationBatchSize
    /\ StateOf(1) = "updateFails" /\ StateOf(2) = "archived"
    /\ fnOut.errors = {1}
    /\ Sent("update", Len(fnIn.flattenedTasks), TRUE)
    /\ fnOut.updatedCount = Len(fnIn.flattenedTasks) - 2

(* ========================= properties of the sync ====================== *)

\* the call returned and no remote call failed
Synced ==
    /\ unit = "sync" /\ syncPc = "returned"
    /\ syncBefore = {<<FlatEntities(previous)[k].tag, FlatEntities(previous)[k].id,
                       ExistingPage(k)>> : k \in 1..Len(FlatEntities(previous))}
    /\ \A k \in 1..Len(syncRequests) : syncRequests[k].ok

\* C29: when every entity of prev had a live page of its own, no other page
\* was live and every remote call succeeded, the mapping is afterwards a
\* bijection between the entities of cur and the live pages: every entity of
\* cur has a page, no two share one, and every live page has an entry.
C29_SyncBijection ==
    Synced =>
        /\ {<<e[1], e[2]>> : e \in syncMapping} = KeysOf(current)
        /\ \A e \in syncMapping, f \in syncMapping : e[3] = f[3] => e = f
        /\ {e[3] : e \in syncMapping} = syncLive


(* ============== properties of one command's transaction =============== *)

\* the positions of the history where rollback was invoked on operation op
RollbacksOf(op) == {q \in 1..Len(log) : log[q].ev = "rollback" /\ log[q].op = op}

\* the positions where the execute() of operation op returned
ExecutionsOf(op) == {q \in 1..Len(log) : log[q].ev = "execute" /\ log[q].op = op /\ log[q].ok}

\* the operations the history names
LoggedOps == {log[q].op : q \in 1..Len(log)}

\* C31: within one transaction (one TransactionManager, one
\* CompositeOperation) rollback is invoked at most once on every operation,
\* and only on an operation whose execute() returned before: neither the
\* second rollback() of the command's catch block after a failing
\* executeOperation, nor a rollback() of a composite that has rolled itself
\* back, invokes it again.
C31_RollbackAtMostOnce ==
    unit \in {"TransactionManager", "CompositeOperation"} =>
        \A op \in LoggedOps :
            /\ Cardinality(RollbacksOf(op)) <= 1
            /\ \A q \in RollbacksOf(op) : \E x \in ExecutionsOf(op) : x < q

\* C31 witness: an executeOperation failed after a successful one, the
\* automatic rollback ran and the error reached the caller, and the rollback()
\* the caller made afterwards has ended
C31_Witness ==
    /\ unit = "TransactionManager"
    /\ tmPc = "idle"
    /\ \E j \in 1..Len(log) :
          /\ log[j].ev = "throw"
          /\ Between(LastFailure(j), j, "rollback") # {}
          /\ \E b \in (j + 1)..Len(log), d \in (j + 1)..Len(log) :
                /\ b < d
                /\ log[b].ev = "rollbackBegin"
                /\ log[d].ev = "rollbackEnd"


(* ================= properties of deleteTaskFromNotion ================== *)

\* deleteTaskFromNotion has returned or thrown
DeleteDone == unit = "functions" /\ fnCall = "deleteTaskFromNotion" /\ fnPc = "done"

\* the entries of the mapping file for the entity deleted
EntriesOfDeleted == {e \in fnIn.mapping : e[1] = fnIn.tag /\ e[2] = fnIn.id}

\* C36: deleteTaskFromNotion: when the archive call fails because the record
\* is already archived, no error reaches the caller and the entry of the
\* entity is removed from the saved mapping; for any other failure of the
\* archive call the error reaches the caller and the saved mapping is
\* unchanged; when the entity has no entry, no remote call is made and the
\* mapping is not written.
C36_DeleteAlreadyArchived ==
    DeleteDone =>
        /\ EntriesOfDeleted = {} =>
              /\ ~fnOut.threw
              /\ fnOut.requests = <<>>
              /\ fnOut.saves = <<>>
              /\ fnOut.mapping = fnIn.mapping
        /\ (EntriesOfDeleted # {} /\ fnIn.outcome = "archived") =>
              /\ ~fnOut.threw
              /\ fnOut.mapping = fnIn.mapping \ EntriesOfDeleted
              /\ fnOut.saves = <<fnIn.mapping \ EntriesOfDeleted>>
        /\ (EntriesOfDeleted # {} /\ fnIn.outcome \in {"other", "noMessage"}) =>
              /\ fnOut.threw
              /\ fnOut.saves = <<>>
              /\ fnOut.mapping = fnIn.mapping
        /\ EntriesOfDeleted # {} =>
              /\ Len(fnOut.requests) = 1
              /\ fnOut.requests[1].kind = "archive"
              /\ \E e \in EntriesOfDeleted : fnOut.requests[1].page = e[3]

\* C36 witness: the page of the entity was archived already, the call
\* returned and left the other entries of the file
C36_Witness ==
    /\ DeleteDone
    /\ fnIn.outcome = "archived"
    /\ EntriesOfDeleted # {}
    /\ ~fnOut.threw
    /\ fnOut.mapping # {}
    /\ fnOut.mapping = fnIn.mapping \ EntriesOfDeleted


(* ==================== properties of the saves of a sync ================ *)

\* the call has returned or thrown
SyncEnded == unit = "sync" /\ syncPc \in {"returned", "thrown"} /\ diffPc = "done"

\* the entry save number i wrote for its entity
EntrySaved(i) ==
    {e \in syncWrites[i].content : e[1] = syncWrites[i].tag /\ e[2] = syncWrites[i].id}

\* a save after i and up to j was made by deleting or moving away the entity
\* of save i
GoneBetween(i, j) ==
    \E m \in (i + 1)..j :
        /\ syncWrites[m].by \in {"delete", "move"}
        /\ syncWrites[m].tag = syncWrites[i].tag
        /\ syncWrites[m].id = syncWrites[i].id

\* C32: in one run of syncTasksWithNotion, once an add has saved the entry
\* of its entity, every later save of the run still holds that entry, unless
\* the same entity was deleted or moved away in between.
C32_NoLostMapping ==
    SyncEnded =>
        \A i \in 1..Len(syncWrites) :
            syncWrites[i].by = "add" =>
                /\ EntrySaved(i) # {}
                /\ \A j \in (i + 1)..Len(syncWrites) :
                      EntrySaved(i) \subseteq syncWrites[j].content \/ GoneBetween(i, j)


(* =================== properties of the order of a sync ================= *)

\* request p was sent by the loop over the changes
LoopRequest(p) == syncRequests[p].change > 0 /\ syncRequests[p].kind # "relations"

\* request p is a relation update of the pass over the changed entities
ChangedRelation(p) == syncRequests[p].change > 0 /\ syncRequests[p].kind = "relations"

\* request p failed and its step threw: a failed create or update, or a
\* failed archive whose step saved nothing
Raised(p) ==
    /\ LoopRequest(p)
    /\ ~syncRequests[p].ok
    /\ syncRequests[p].kind = "archive" =>
          \A w \in 1..Len(syncWrites) : syncWrites[w].change # syncRequests[p].change

\* C35: syncTasksWithNotion applies the change records one at a time in the
\* order of diffTasks, and sends the relation updates of the changed
\* entities only after the last record was applied; when applying a record
\* raises, no later record is applied, no relation update of the changed
\* entities is sent and the error reaches the caller.
C35_SyncOrdering ==
    SyncEnded =>
        /\ syncApplied = [k \in 1..Len(syncApplied) |-> k]
        /\ Len(syncApplied) <= Len(finalChanges)
        /\ syncPc = "returned" => Len(syncApplied) = Len(finalChanges)
        /\ \A p \in 1..Len(syncRequests), q \in 1..Len(syncRequests) :
              /\ (LoopRequest(p) /\ LoopRequest(q) /\ p < q) =>
                    syncRequests[p].change <= syncRequests[q].change
              /\ (ChangedRelation(p) /\ ~ChangedRelation(q)) => q < p
        /\ \A p \in 1..Len(syncRequests) :
              /\ syncRequests[p].change <= Len(syncApplied)
              /\ Raised(p) =>
                    /\ syncPc = "thrown"
                    /\ p = Len(syncRequests)
                    /\ syncRequests[p].change = Len(syncApplied)
        /\ syncPc = "thrown" =>
              /\ syncApplied # <<>>
              /\ \A p \in 1..Len(syncRequests) : ~ChangedRelation(p)

\* C35 witness: the second of three change records raised after the first
\* had sent its request
C35_Witness ==
    /\ SyncEnded
    /\ syncPc = "thrown"
    /\ Len(finalChanges) >= 3
    /\ Len(syncApplied) = 2
    /\ \E p \in 1..Len(syncRequests) : Raised(p) /\ syncRequests[p].change = 2
    /\ \E p \in 1..Len(syncRequests) : LoopRequest(p) /\ syncRequests[p].change = 1


(* ============ properties of the deleted and moved records ============== *)

\* diffTasks has returned
Diffed == unit = "diffTasks" /\ diffPc = "done"

\* the records that say entity (tag, id) of previous is gone: the deleted
\* records of the entity and the moved records with the entity on their prev side
GoneRecords(tag, id) ==
    {k \in 1..Len(finalChanges) :
        \/ /\ finalChanges[k].type = "deleted"
           /\ finalChanges[k].tag = tag /\ finalChanges[k].id = id
        \/ /\ finalChanges[k].type = "moved"
           /\ finalChanges[k].prev_tag = tag /\ finalChanges[k].id = id}

\* C33: every flattened entity of previous that is not in current (by tag
\* and id) appears exactly once in the result of diffTasks, as one deleted
\* record or as the prev side of one moved record; and no deleted record and
\* no prev side of a moved record names an entity that current still holds
\* under the same tag and id.
C33_DeleteMoveConservation ==
    Diffed =>
        /\ \A key \in KeysOf(previous) \ KeysOf(current) :
              Cardinality(GoneRecords(key[1], key[2])) = 1
        /\ \A key \in KeysOf(current) : GoneRecords(key[1], key[2]) = {}

\* C33 witness: of two entities gone from previous one was recognised as
\* moved and the other was deleted, while a third entity stayed
C33_Witness ==
    /\ Diffed
    /\ \E k \in 1..Len(finalChanges) : finalChanges[k].type = "moved"
    /\ \E k \in 1..Len(finalChanges) : finalChanges[k].type = "deleted"
    /\ KeysOf(previous) \cap KeysOf(current) # {}


(* ---------------- properties of the relation payloads ------------------- *)

RelationsBuilt ==
    unit = "functions" /\ fnCall = "buildHierarchicalRelations" /\ fnPc = "done"

\* the subtask of the input that lists dependencies, the ids of the subtasks
\* of its parent, and the dependencies that name one of them by its bare id
DependentSubtask == fnIn.task.subtasks[Len(fnIn.task.subtasks)]
SubtaskIdsOfParent == {fnIn.task.subtasks[k].id : k \in 1..Len(fnIn.task.subtasks)}
SiblingDependencies ==
    {d \in Range(DependentSubtask.dependencies) : IsBare(d) /\ d.val[1] \in SubtaskIdsOfParent}

\* the pages the payload of the dependent subtask refers to as dependencies
DependencyPagesSent ==
    LET id == <<fnIn.task.id, DependentSubtask.id>>
        rel == fnOut[CHOOSE k \in 1..Len(fnOut) : fnOut[k].id = id].relations
    IN  IF fnIn.path = "sync"
        THEN {rel.dependencies[k].link : k \in 1..Len(rel.dependencies)} \ {<<>>}
        ELSE Range(rel.dependencies)
\* the path builds dependency references at all
DependenciesBuilt == fnIn.path = "sync" \/ fnIn.useDependencyRelations
MappedPage(id) == {e[3] : e \in {f \in fnIn.mapping : f[1] = "x" /\ f[2] = id}}

\* C34: in each of the three paths (sync, reset, hierarchy repair) that builds
\* dependency references, a dependency of a subtask that names a sibling
\* subtask by its bare local id refers to the page mapped at
\* "<parentId>.<dep>" when there is one, and never to the page of the
\* top-level task with that number.
C34_SiblingDependencyPage ==
    RelationsBuilt /\ DependenciesBuilt =>
        \A d \in SiblingDependencies :
            /\ MappedPage(<<fnIn.task.id, d.val[1]>>) \subseteq DependencyPagesSent
            /\ MappedPage(<<d.val[1]>>) \cap DependencyPagesSent = {}


(* --------------- properties of subtasks without an id ------------------ *)

FlattenedWithoutId == unit = "flattenTasksWithoutId" /\ diffPc = "done"

\* the compound id `${p}.undefined` or `${p}.null`: its second part is 0
EndsWithoutId(id) == Len(id) = 2 /\ id[2] = 0
\* the subtasks of the flattened task that have an id
SubtasksWithId ==
    {k \in 1..Len(FlattenedParent.subtasks) : FlattenedParent.subtasks[k].id # 0}
\* the subtask reference lists the flattened entities carry
ReferencesWithoutId(task) ==
    ~task.isSubtask /\ \E j \in 1..Len(task.subtasks) : EndsWithoutId(task.subtasks[j])

\* C37: for a task with a subtask whose id is null or undefined, neither
\* flattenTasksWithTag nor flattenTasksMap returns an entity for that subtask
\* (each returns one entity per subtask with an id, and the task), the
\* subtask list of the flattened task holds no compound id for it, and no
\* change record of diffTasks has an id, or a new id, of such a subtask.
C37_SubtasksWithoutIdSkipped ==
    /\ FlattenedWithoutId =>
          /\ Len(flatArr) = Cardinality(SubtasksWithId) + 1
          /\ \A k \in 1..Len(flatArr) :
                ~EndsWithoutId(flatArr[k].id) /\ ~ReferencesWithoutId(flatArr[k].task)
          /\ {flatMap[k].id : k \in 1..Len(flatMap)}
                = {<<FlattenedParent.id, FlattenedParent.subtasks[k].id>> : k \in SubtasksWithId}
                  \cup {<<FlattenedParent.id>>}
          /\ \A k \in 1..Len(flatMap) :
                ~EndsWithoutId(flatMap[k].id) /\ ~ReferencesWithoutId(flatMap[k].task)
    /\ Diffed =>
          \A k \in 1..Len(finalChanges) :
             /\ ~EndsWithoutId(finalChanges[k].id)
             /\ ~EndsWithoutId(finalChanges[k].cur_id)
             /\ finalChanges[k].type # "added" => ~ReferencesWithoutId(finalChanges[k].prev)
             /\ finalChanges[k].type # "deleted" => ~ReferencesWithoutId(finalChanges[k].cur)

\* a task with a subtask without id before a subtask with id 1 was flattened:
\* two entities came out
C37_Witness ==
    /\ FlattenedWithoutId
    /\ Len(FlattenedParent.subtasks) = 2
    /\ FlattenedParent.subtasks[1].id = 0
    /\ FlattenedParent.subtasks[2].id = 1
    /\ Len(flatArr) = 2
    /\ Len(flatMap) = 2


(* -------------------- properties of resetNotionDB ---------------------- *)

\* step 3 was passed: the sync of step 5 is about to start or has ended, or
\* the reset failed after the pages were fetched
ClearReached ==
    /\ unit = "resetNotionDB"
    /\ \/ syncPc \in {"ready", "returned", "thrown"}
       \/ syncPc = "failed" /\ syncRequests[1].ok
\* resetNotionDB returned success: true
ResetSucceeded == unit = "resetNotionDB" /\ syncPc = "returned"
\* the pages created during this reset
CreatedByReset ==
    {syncRequests[k].page :
        k \in {j \in 1..Len(syncRequests) : syncRequests[j].kind = "create" /\ syncRequests[j].ok}}
\* the entities of the local store
StoreKeys == {<<FlatEntities(current)[k].tag, FlatEntities(current)[k].id>> :
                 k \in 1..Len(FlatEntities(current))}

\* C38: in resetNotionDB the mapping file holds an empty mapping after step
\* 3 (the sync of step 5 starts from an empty mapping), and when the reset
\* returns success every entry of the mapping file belongs to an entity of
\* the local store and points to a page created during this reset.
C38_ResetClearsMapping ==
    /\ ClearReached => syncBefore = {}
    /\ (ClearReached /\ syncPc = "ready") => syncMapping = {}
    /\ ResetSucceeded =>
          \A e \in syncMapping : <<e[1], e[2]>> \in StoreKeys /\ e[3] \in CreatedByReset


(* -------- properties of the retries of archivePagesInParallel ---------- *)

\* the call archivePagesInParallel makes for one page
ArchivePageCall == unit = "executeWithRetry" /\ retryOptions = ArchivePageOptions

\* C39: the archive request of a page in archivePagesInParallel is retried
\* at most 3 times: it is never invoked more than 4 times, and when every
\* invocation fails with a retryable error the call raises the error (the
\* page is counted as failed) after exactly 4 invocations.
C39_ArchiveRetriedThreeTimes ==
    ArchivePageCall =>
        /\ Len(invocations) <= ArchiveRetries + 1
        /\ (AlwaysRetryable /\ retryPc = "thrown") => Len(invocations) = ArchiveRetries + 1


(* ------------- properties of the statistics of the validation ---------- *)

\* the local entities some issue names, and the issues of one type
EntitiesWithIssue == {e \in LocalEntities : \E k \in 1..Len(fnOut.issues) : fnOut.issues[k].taskId = e}
IssuesOfType(type) == {k \in 1..Len(fnOut.issues) : fnOut.issues[k].type = type}

\* C40: isValid holds exactly when the issue list is empty; validTasks is the
\* number of local entities no issue names, so that validTasks plus the
\* number of entities with an issue is totalTasks; orphanedSubtasks and
\* missingRelations are the numbers of orphaned_subtask and parent_mismatch
\* issues.
C40_StatsMatchIssues ==
    Validated =>
        /\ fnOut.isValid <=> fnOut.issues = <<>>
        /\ fnOut.stats.validTasks = Cardinality(LocalEntities \ EntitiesWithIssue)
        /\ fnOut.stats.validTasks + Cardinality(EntitiesWithIssue) = fnOut.stats.totalTasks
        /\ fnOut.stats.orphanedSubtasks = Cardinality(IssuesOfType("orphaned_subtask"))
        /\ fnOut.stats.missingRelations = Cardinality(IssuesOfType("parent_mismatch"))

====
